---- MODULE Spec2Model ----
(***************************************************************************)
(* State-machine model of the ownership-scoped consistency layer of the    *)
(* infinite_vocab backend: the word, description, example, category,       *)
(* word-category link and admin-student services, and the Firestore        *)
(* collections they read and write.                                        *)
(*                                                                         *)
(* A document collection is a function from document ids to documents,     *)
(* with NoDoc standing for "no document under this id".  Store-generated   *)
(* ids (collection.add) are drawn from a counter and never reused.         *)
(* Texts are sequences of one-character strings so that str.lower() and    *)
(* str.strip() are computed, not assumed.                                  *)
(***************************************************************************)
EXTENDS Integers, Sequences, FiniteSets, TLC

(***************************************************************************)
(* Bounds of the model.                                                    *)
(***************************************************************************)
MaxWords == 2
MaxStars == 2
MaxProcs == 2
MaxSubs == 2
MaxCats == 3
MaxStarWords == 1
MaxSpecWords == 1
MaxSpecCats == 1
MaxMilestoneStars == 41
MaxSearchCats == 2

(***************************************************************************)
(* Inputs.                                                                 *)
(***************************************************************************)
Callers == {"u1", "u2"}
WordTexts == {<<"A">>, <<"a">>, <<"b">>}
SubTexts == {"t2"}
CatNames == {<<"S">>, <<"s", " ">>, <<"t">>}
Colors == {"#FFFFFF"}
\* An optional request field left out (the schemas refuse an empty name and
\* an empty color, so the empty values are free to stand for "absent").
NoName == <<>>
NoColor == ""

WordIds == 1..MaxWords
SubIds == 1..MaxSubs
Procs == 1..MaxProcs
CatIds == 1..MaxCats
\* A link document is named f"{word_id}_{category_id}"; ids are generated by
\* the store and carry no underscore, so the name determines the pair.
LinkIds == WordIds \X CatIds
Accounts == {"u1", "u2", "u3"}
\* A relation document is named f"{admin_id}_{student_id}"; the ids are
\* Firebase uids, which carry no underscore, so the name determines the pair.
RelationIds == Accounts \X Accounts

NoDoc == [exists |-> FALSE]

(***************************************************************************)
(* str.lower() and str.strip() on the modelled alphabet.                   *)
(***************************************************************************)
LowerChar(c) ==
  CASE c = "A" -> "a"
    [] c = "B" -> "b"
    [] c = "S" -> "s"
    [] c = "T" -> "t"
    [] OTHER -> c

Lower(s) == [i \in 1..Len(s) |-> LowerChar(s[i])]

RECURSIVE LStrip(_)
LStrip(s) == IF s # <<>> /\ Head(s) = " " THEN LStrip(Tail(s)) ELSE s

RECURSIVE RStrip(_)
RStrip(s) ==
  IF s # <<>> /\ s[Len(s)] = " " THEN RStrip(SubSeq(s, 1, Len(s) - 1)) ELSE s

Strip(s) == RStrip(LStrip(s))

VARIABLES
  words,         \* collection "words": WordIds -> word document or NoDoc
  nextWordId,    \* next store-generated word id
  descriptions,  \* subcollections "descriptions": SubIds -> document or NoDoc
  nextDescId,
  examples,      \* subcollections "examples": SubIds -> document or NoDoc
  nextExId,
  categories,    \* collection "categories": CatIds -> document or NoDoc
  links,         \* collection "word_categories": LinkIds -> document or NoDoc
  users,         \* collection "users": the accounts that have a user document
  admins,        \* collection "admins": Accounts -> document or NoDoc
  relations,     \* collection "admin_student_relations": RelationIds -> doc
  txn,           \* per request: the star transaction in flight
  starLog,       \* per word: the star calls that returned success, in order
  calls,         \* per request: a check-then-write handler between its steps
  listed,        \* the word ids the last listing call returned
  search_results,         \* the two lists the last search call returned
  user_docs,     \* the name and code fields of the "users" documents
  result         \* the response of the last call that returned

vars == <<words, nextWordId, descriptions, nextDescId, examples, nextExId,
          categories, links, users, admins, relations, txn, starLog, calls,
          listed, search_results, user_docs, result>>

wordVars == <<words, nextWordId, descriptions, nextDescId, examples, nextExId>>

starVars == <<txn, starLog>>

contentVars == <<wordVars, starVars, categories, links>>

adminVars == <<users, admins, relations>>

\* The state that the word, category, link and admin handlers leave alone.
reqVars == <<calls, listed, search_results, user_docs>>

(***************************************************************************)
(* Responses.  kind is "ok" or the name of the raised exception.           *)
(***************************************************************************)
Resp(op, kind, caller, id, arg, val, out) ==
  [op |-> op, kind |-> kind, caller |-> caller, id |-> id, arg |-> arg,
   val |-> val, out |-> out]

NoResp == Resp("none", "none", "", 0, <<>>, 0, <<>>)

IdleTxn == [pc |-> "idle", user_id |-> "", word_id |-> 0,
            new_star_count |-> 0, word_text |-> <<>>, stale |-> FALSE,
            retried |-> FALSE]

\* A request that is not inside a check-then-write handler.
IdleCall == [pc |-> "idle", op |-> "", caller |-> "", student_id |-> "",
             word_id |-> 0, category_id |-> 0, word_text |-> <<>>,
             method |-> "", data |-> <<>>, code |-> ""]

\* A search that returned nothing.
NoFound == [words |-> <<>>, categories |-> <<>>]

\* A user document without the fields "name" and "code" (a missing field
\* reads as None, written here as the empty string).
None == ""
NoUserDoc == [name |-> None, code |-> None]

WordExists(w) == w \in WordIds /\ words[w].exists

(***************************************************************************)
(* Word repository (data_access/word_dal.py).                              *)
(***************************************************************************)
\* A lookup that compares the display text as typed.
find_word_by_text_case_sensitive(user_id, word_text) ==
  {w \in WordIds : /\ words[w].exists
                   /\ words[w].user_id = user_id
                   /\ words[w].word_text = word_text}

\* The ids of the caller's words whose search key equals lower(word_text);
\* the query is limited to one document, the caller gets one of these ids.
find_word_by_text_for_user(user_id, word_text) ==
  {w \in WordIds : /\ words[w].exists
                   /\ words[w].user_id = user_id
                   /\ words[w].word_text_search = Lower(word_text)}

\* WordFactory.create_from_schema: the new word document.
create_from_schema(word_text, user_id) ==
  [exists |-> TRUE, user_id |-> user_id, word_text |-> word_text,
   word_text_search |-> Lower(word_text), word_stars |-> 0]

\* A write of the display text alone.
update_word_by_id_text_only(doc, new_word_text) ==
  [doc EXCEPT !.word_text = new_word_text]

\* word_dal.update_word_by_id: the stored document after the write.
update_word_by_id(doc, new_word_text) ==
  [doc EXCEPT !.word_text = new_word_text,
              !.word_text_search = Lower(new_word_text)]

\* A sub-entity that is never marked as initial content.
create_sub_not_initial(word_id, text, user_id, is_initial) ==
  [exists |-> TRUE, word_id |-> word_id, user_id |-> user_id,
   text |-> text, is_initial |-> FALSE]

\* WordFactory.create_description_from_schema / create_example_from_schema,
\* stored under the subcollection of word_id.
create_sub_from_schema(word_id, text, user_id, is_initial) ==
  [exists |-> TRUE, word_id |-> word_id, user_id |-> user_id,
   text |-> text, is_initial |-> is_initial]

\* The sub-entity collection after delete_word_by_id streamed and deleted
\* the subcollection of word_id.
delete_subcollection(coll, word_id) ==
  [s \in SubIds |-> IF coll[s].exists /\ coll[s].word_id = word_id
                    THEN NoDoc ELSE coll[s]]

\* A commit that leaves the transactions of other requests as they are.
InvalidateNone(w) == txn

\* A committed write to word document w invalidates the reads of every
\* star transaction in flight on w.
Invalidate(w) ==
  [p \in Procs |-> IF txn[p].pc = "pending" /\ txn[p].word_id = w
                   THEN [txn[p] EXCEPT !.stale = TRUE] ELSE txn[p]]

(***************************************************************************)
(* Word service (services/word/word_service.py).                           *)
(***************************************************************************)
\* A gate that tells a foreign owner apart from absence.
get_word_details_forbidden(user_id, word_id) ==
  IF ~WordExists(word_id) THEN "NotFoundError"
  ELSE IF words[word_id].user_id # user_id THEN "ForbiddenError"
  ELSE "ok"

\* The ownership gate: absence and a foreign owner raise the same error.
get_word_details_for_user(user_id, word_id) ==
  IF ~WordExists(word_id) THEN "NotFoundError"
  ELSE IF words[word_id].user_id # user_id THEN "NotFoundError"
  ELSE "ok"

GetWord(u, w) ==
  /\ result' = IF get_word_details_for_user(u, w) = "ok"
               THEN Resp("get_word", "ok", u, w, <<>>,
                         words[w].word_stars, words[w].word_text)
               ELSE Resp("get_word", get_word_details_for_user(u, w), u, w,
                         <<>>, 0, <<>>)
  /\ UNCHANGED <<wordVars, txn, starLog>>

create_word_for_user(u, t, d, e) ==
  LET existing == find_word_by_text_for_user(u, t) IN
  IF existing # {}
  THEN /\ \E existing_word_id \in existing :
            result' = Resp("create_word", "DuplicateEntryError", u, 0, t,
                           existing_word_id, <<>>)
       /\ UNCHANGED <<wordVars, txn, starLog>>
  ELSE /\ nextWordId <= MaxWords
       /\ nextDescId \in SubIds
       /\ nextExId \in SubIds
       /\ words' = [words EXCEPT ![nextWordId] = create_from_schema(t, u)]
       /\ nextWordId' = nextWordId + 1
       /\ descriptions' = [descriptions EXCEPT ![nextDescId] =
                             create_sub_from_schema(nextWordId, d, u, TRUE)]
       /\ nextDescId' = nextDescId + 1
       /\ examples' = [examples EXCEPT ![nextExId] =
                         create_sub_from_schema(nextWordId, e, u, TRUE)]
       /\ nextExId' = nextExId + 1
       /\ result' = Resp("create_word", "ok", u, nextWordId, t, 0, <<d, e>>)
       /\ UNCHANGED <<txn, starLog>>

\* A failed create that takes the word document back.
create_word_rolled_back(u, t, d, e, failed) ==
  /\ find_word_by_text_for_user(u, t) = {}
  /\ nextWordId <= MaxWords
  /\ nextDescId \in SubIds
  /\ nextWordId' = nextWordId + 1
  /\ result' = Resp("create_word", "WordServiceError", u, 0, t, 0, <<>>)
  /\ UNCHANGED <<words, descriptions, nextDescId, examples, nextExId, txn,
                 starLog>>

\* create_word_for_user when the store refuses a write after add_word_to_db:
\* failed names the write that raises DatabaseError, "description" or
\* "example".  The writes before it stay, the handler answers
\* WordServiceError and undoes nothing.
create_word_sub_write_fails(u, t, d, e, failed) ==
  /\ find_word_by_text_for_user(u, t) = {}
  /\ nextWordId <= MaxWords
  /\ nextDescId \in SubIds
  /\ words' = [words EXCEPT ![nextWordId] = create_from_schema(t, u)]
  /\ nextWordId' = nextWordId + 1
  /\ IF failed = "description"
     THEN UNCHANGED <<descriptions, nextDescId>>
     ELSE /\ descriptions' = [descriptions EXCEPT ![nextDescId] =
                                create_sub_from_schema(nextWordId, d, u, TRUE)]
          /\ nextDescId' = nextDescId + 1
  /\ result' = Resp("create_word", "WordServiceError", u, 0, t, 0, <<>>)
  /\ UNCHANGED <<examples, nextExId, txn, starLog>>

update_word_for_user(u, w, t) ==
  IF get_word_details_for_user(u, w) # "ok"
  THEN /\ result' = Resp("update_word", get_word_details_for_user(u, w), u, w,
                         t, 0, <<>>)
       /\ UNCHANGED <<wordVars, txn, starLog>>
  ELSE /\ words' = [words EXCEPT ![w] = update_word_by_id(words[w], t)]
       /\ txn' = Invalidate(w)
       /\ result' = Resp("update_word", "ok", u, w, t, words[w].word_stars, t)
       /\ UNCHANGED <<nextWordId, descriptions, nextDescId, examples,
                      nextExId, starLog>>

delete_word_for_user(u, w) ==
  IF get_word_details_for_user(u, w) # "ok"
  THEN /\ result' = Resp("delete_word", get_word_details_for_user(u, w), u, w,
                         <<>>, 0, <<>>)
       /\ UNCHANGED <<wordVars, txn, starLog>>
  ELSE /\ examples' = delete_subcollection(examples, w)
       /\ descriptions' = delete_subcollection(descriptions, w)
       /\ words' = [words EXCEPT ![w] = NoDoc]
       /\ txn' = Invalidate(w)
       /\ result' = Resp("delete_word", "ok", u, w, <<>>, 0,
                         words[w].word_text)
       /\ UNCHANGED <<nextWordId, nextDescId, nextExId, starLog>>

(***************************************************************************)
(* Star (services/word/star_service.py, word_dal.atomic_update).           *)
(* The transaction body reads the word document and buffers the write; the *)
(* store applies the write at commit only if the document was not written  *)
(* since it was read, and otherwise aborts the attempt and the decorator   *)
(* runs the body again.                                                    *)
(***************************************************************************)
\* A transaction body that does not compare the owner with the caller.
atomic_update_any_owner(p, user_id, word_id) ==
  IF ~WordExists(word_id)
  THEN /\ result' = Resp("star", "NotFoundError", user_id, word_id, <<>>, 0,
                         <<>>)
       /\ txn' = [txn EXCEPT ![p] = IdleTxn]
  ELSE /\ txn' = [txn EXCEPT ![p] =
                    [pc |-> "pending", user_id |-> user_id,
                     word_id |-> word_id,
                     new_star_count |-> words[word_id].word_stars + 1,
                     word_text |-> words[word_id].word_text,
                     stale |-> FALSE,
                     retried |-> txn[p].pc = "pending"]]
       /\ UNCHANGED result

\* The body of atomic_update, run by request p for (user_id, word_id).
atomic_update(p, user_id, word_id) ==
  IF ~WordExists(word_id)
  THEN /\ result' = Resp("star", "NotFoundError", user_id, word_id, <<>>, 0,
                         <<>>)
       /\ txn' = [txn EXCEPT ![p] = IdleTxn]
  ELSE IF words[word_id].user_id # user_id
  THEN /\ result' = Resp("star", "ForbiddenError", user_id, word_id, <<>>, 0,
                         <<>>)
       /\ txn' = [txn EXCEPT ![p] = IdleTxn]
  ELSE /\ txn' = [txn EXCEPT ![p] =
                    [pc |-> "pending", user_id |-> user_id,
                     word_id |-> word_id,
                     new_star_count |-> words[word_id].word_stars + 1,
                     word_text |-> words[word_id].word_text,
                     stale |-> FALSE,
                     retried |-> txn[p].pc = "pending"]]
       /\ UNCHANGED result

\* The milestone rule applied to the count before the increment.
validate_star_milestones_of_stored(star_count) ==
  (IF star_count - 1 \in {5, 10, 15, 20}
   THEN <<"prompt_for_description">> ELSE <<>>)
  \o (IF star_count - 1 \in {10, 20, 30, 40}
      THEN <<"prompt_for_example">> ELSE <<>>)

\* WordFactory.validate_star_milestones: the two flags of a star count,
\* written as the sequence of the names of the flags that are true.
validate_star_milestones(star_count) ==
  (IF star_count \in {5, 10, 15, 20}
   THEN <<"prompt_for_description">> ELSE <<>>)
  \o (IF star_count \in {10, 20, 30, 40}
      THEN <<"prompt_for_example">> ELSE <<>>)

PendingOn(w) == {p \in Procs : txn[p].pc = "pending" /\ txn[p].word_id = w}

StarBegin(p, u, w) ==
  /\ txn[p].pc = "idle"
  /\ WordExists(w) =>
       words[w].word_stars + Cardinality(PendingOn(w)) < MaxStars
  /\ atomic_update(p, u, w)
  /\ UNCHANGED <<wordVars, starLog>>

\* A plain read-then-write: the commit never checks the read.
CommitAllowedUnchecked(p) == TRUE

\* @firestore.transactional: the commit goes through only if the document
\* read by the body was not written since.
CommitAllowed(p) == ~txn[p].stale

StarCommit(p) ==
  /\ txn[p].pc = "pending"
  /\ CommitAllowed(p)
  /\ words' = [words EXCEPT ![txn[p].word_id].word_stars =
                                txn[p].new_star_count]
  /\ txn' = [q \in Procs |->
               IF q = p THEN IdleTxn ELSE Invalidate(txn[p].word_id)[q]]
  /\ starLog' = [starLog EXCEPT ![txn[p].word_id] =
                   Append(@, [new_star_count |-> txn[p].new_star_count,
                              retried |-> txn[p].retried])]
  /\ result' = Resp("star", "ok", txn[p].user_id, txn[p].word_id,
                    validate_star_milestones(txn[p].new_star_count),
                    txn[p].new_star_count, txn[p].word_text)
  /\ UNCHANGED <<nextWordId, descriptions, nextDescId, examples, nextExId>>

\* Commit of a transaction whose read is stale: aborted, the body runs again.
StarRetry(p) ==
  /\ txn[p].pc = "pending"
  /\ txn[p].stale
  /\ atomic_update(p, txn[p].user_id, txn[p].word_id)
  /\ UNCHANGED <<wordVars, starLog>>


(***************************************************************************)
(* Categories (models/category_model.py, factories/category_factory.py,    *)
(* data_access/category_dal.py, services/category_service.py).             *)
(***************************************************************************)
CatExists(c) == c \in CatIds /\ categories[c].exists

\* The fields the Category model declares (timestamps left out).  The model
\* keeps pydantic's default handling of unknown keys: a key it does not
\* declare is dropped when the model is built, and reading it on the
\* instance raises AttributeError.  category_name_search is not declared.
CategoryFields == {"exists", "category_id", "user_id", "category_name",
                   "category_color"}

\* Category(**data) / Category.model_validate(data).
Category(data) == [f \in (DOMAIN data) \cap CategoryFields |-> data[f]]

\* CategoryFactory._normalize_category_name.
normalize_category_name(name) == Strip(name)

\* CategoryFactory.create_from_schema: the model built from the request.
category_from_schema(category_name, category_color, user_id) ==
  Category([exists |-> TRUE,
            category_name |-> normalize_category_name(category_name),
            category_name_search |->
              Lower(normalize_category_name(category_name)),
            category_color |-> category_color,
            user_id |-> user_id])

\* CategoryFactory.create_update_dict: the fields the request sets.
create_update_dict(category_name, category_color) ==
  [f \in (IF category_name # NoName
          THEN {"category_name", "category_name_search"} ELSE {})
         \cup (IF category_color # NoColor THEN {"category_color"} ELSE {}) |->
     CASE f = "category_name" -> normalize_category_name(category_name)
       [] f = "category_name_search" ->
            Lower(normalize_category_name(category_name))
       [] f = "category_color" -> category_color]

\* category_dal.get_categories_by_user: ids of the caller's categories.
get_categories_by_user(user_id) ==
  {c \in CatIds : categories[c].exists /\ categories[c].user_id = user_id}

\* category_dal.create_category builds the document from the model's
\* attributes: TRUE iff every attribute it reads is one the model has.
dal_create_category_readable(category) ==
  {"user_id", "category_name", "category_name_search", "category_color"}
    \subseteq DOMAIN category

\* doc_ref.update(updates): the stored document with the given fields set.
dal_update_category(doc, updates) ==
  [f \in DOMAIN doc |-> IF f \in DOMAIN updates THEN updates[f] ELSE doc[f]]

\* category_service.get_category_by_id: the gate raises NotFoundError for an
\* absent or foreign category inside a try block whose last handler,
\* "except Exception", re-raises whatever reaches it as CategoryServiceError.
get_category_by_id(category_id, user_id) ==
  LET raised == IF ~CatExists(category_id) THEN "NotFoundError"
                ELSE IF categories[category_id].user_id # user_id
                THEN "NotFoundError"
                ELSE "ok"
  IN  IF raised = "ok" THEN "ok" ELSE "CategoryServiceError"

GetCategory(u, c) ==
  /\ result' = IF get_category_by_id(c, u) = "ok"
               THEN Resp("get_category", "ok", u, c, <<>>, 0,
                         categories[c].category_name)
               ELSE Resp("get_category", get_category_by_id(c, u), u, c,
                         <<>>, 0, <<"unexpected">>)
  /\ UNCHANGED categories

\* category_service.create_category.  The duplicate is raised as
\* CategoryServiceError and re-wrapped by "except Exception"; a fresh name
\* reaches category_dal.create_category, which fails on the attribute the
\* model does not have, so the DatabaseError handler answers.
create_category(u, name, color) ==
  LET normalized_name == Lower(Strip(name))
      partial_category == category_from_schema(name, color, u)
  IN
  IF \E c \in get_categories_by_user(u) :
       Lower(categories[c].category_name) = normalized_name
  THEN /\ result' = Resp("create_category", "CategoryServiceError", u, 0, name,
                         0, <<"unexpected">>)
       /\ UNCHANGED categories
  ELSE IF ~dal_create_category_readable(partial_category)
  THEN /\ result' = Resp("create_category", "CategoryServiceError", u, 0, name,
                         0, <<"database">>)
       /\ UNCHANGED categories
  ELSE /\ \E c \in CatIds :
            /\ ~categories[c].exists
            /\ categories' = [categories EXCEPT ![c] =
                 [exists |-> TRUE, user_id |-> u,
                  category_name |-> partial_category.category_name,
                  category_name_search |->
                    partial_category.category_name_search,
                  category_color |-> partial_category.category_color]]
            /\ result' = Resp("create_category", "ok", u, c, name, 0,
                              partial_category.category_name)

\* The duplicate scan of update_category: another category of the caller
\* whose name equals the new one case-insensitively.  (Variant that compares
\* the names as written.)
update_name_conflict_exact(c, u, updates) ==
  /\ "category_name" \in DOMAIN updates
  /\ updates.category_name # categories[c].category_name
  /\ \E o \in get_categories_by_user(u) :
       /\ o # c
       /\ categories[o].category_name = updates.category_name

\* The duplicate scan of update_category, run only when the lowercase name
\* changes: another category of the caller with the new lowercase name.
update_name_conflict(c, u, updates) ==
  /\ "category_name" \in DOMAIN updates
  /\ Lower(updates.category_name) # Lower(categories[c].category_name)
  /\ \E o \in get_categories_by_user(u) :
       /\ o # c
       /\ Lower(categories[o].category_name) = Lower(updates.category_name)

\* category_service.update_category.
update_category(c, u, name, color) ==
  LET updates == create_update_dict(name, color) IN
  IF get_category_by_id(c, u) # "ok"
  THEN /\ result' = Resp("update_category", get_category_by_id(c, u), u, c,
                         name, 0,
                         <<"unexpected">>)
       /\ UNCHANGED categories
  ELSE IF DOMAIN updates = {}
  THEN /\ result' = Resp("update_category", "ok", u, c, <<>>, 0,
                         categories[c].category_name)
       /\ UNCHANGED categories
  ELSE IF update_name_conflict(c, u, updates)
  THEN /\ result' = Resp("update_category", "CategoryServiceError", u, c, name,
                         0, <<"exists">>)
       /\ UNCHANGED categories
  ELSE /\ categories' = [categories EXCEPT ![c] =
                           dal_update_category(categories[c], updates)]
       /\ result' = Resp("update_category", "ok", u, c,
                         name, 0,
                         categories'[c].category_name)

\* category_service.delete_category.
delete_category(c, u) ==
  IF get_category_by_id(c, u) # "ok"
  THEN /\ result' = Resp("delete_category", get_category_by_id(c, u), u, c,
                         <<>>, 0, <<"unexpected">>)
       /\ UNCHANGED categories
  ELSE /\ categories' = [categories EXCEPT ![c] = NoDoc]
       /\ result' = Resp("delete_category", "ok", u, c, <<>>, 0, <<>>)


(***************************************************************************)
(* Descriptions and examples (services/word/description_service.py and its *)
(* mirror services/word/example_service.py).  A sub-entity document lives  *)
(* in the subcollection of its word, so it is addressed by both ids.       *)
(***************************************************************************)
\* word_dal.get_description_by_id / get_example_by_id.
get_sub_by_id(coll, word_id, sub_id) ==
  sub_id \in SubIds /\ coll[sub_id].exists /\ coll[sub_id].word_id = word_id

\* A gate that only looks for the sub-entity under the word.
get_sub_by_id_unowned(coll, user_id, word_id, sub_id) ==
  IF ~get_sub_by_id(coll, word_id, sub_id)
  THEN "NotFoundError"
  ELSE "ok"

\* _get_description_by_id_with_ownership / _get_example_by_id_with_ownership.
get_sub_by_id_with_ownership(coll, user_id, word_id, sub_id) ==
  IF get_word_details_for_user(user_id, word_id) # "ok"
  THEN "NotFoundError"
  ELSE IF ~get_sub_by_id(coll, word_id, sub_id)
  THEN "NotFoundError"
  ELSE IF coll[sub_id].user_id # user_id
  THEN "NotFoundError"
  ELSE "ok"

add_description_for_user(u, w, text) ==
  IF get_word_details_for_user(u, w) # "ok"
  THEN /\ result' = Resp("add_description", get_word_details_for_user(u, w),
                         u, w, <<text>>, 0, <<>>)
       /\ UNCHANGED <<descriptions, nextDescId>>
  ELSE /\ nextDescId \in SubIds
       /\ descriptions' = [descriptions EXCEPT ![nextDescId] =
                             create_sub_from_schema(w, text, u, FALSE)]
       /\ nextDescId' = nextDescId + 1
       /\ result' = Resp("add_description", "ok", u, w, <<text>>, nextDescId,
                         <<>>)

\* add_description_for_user up to its ownership check: an error answers at
\* once, a passed check leaves the request before its write.
add_description_checks(p, u, w, text) ==
  /\ calls[p].pc = "idle"
  /\ IF get_word_details_for_user(u, w) # "ok"
     THEN /\ result' = Resp("add_description",
                            get_word_details_for_user(u, w), u, w, <<text>>,
                            0, <<>>)
          /\ UNCHANGED calls
     ELSE /\ calls' = [calls EXCEPT ![p] =
                         [IdleCall EXCEPT !.pc = "write",
                                          !.op = "add_description",
                                          !.caller = u,
                                          !.word_id = w,
                                          !.word_text = <<text>>]]
          /\ UNCHANGED result
  /\ UNCHANGED <<descriptions, nextDescId>>

\* add_description_for_user from append_description_to_word_db to its return:
\* the store adds the document under the word id whether or not the word
\* document is still there.
add_description_write(p) ==
  /\ calls[p].pc = "write"
  /\ calls[p].op = "add_description"
  /\ nextDescId \in SubIds
  /\ descriptions' = [descriptions EXCEPT ![nextDescId] =
                        create_sub_from_schema(calls[p].word_id,
                                               calls[p].word_text[1],
                                               calls[p].caller, FALSE)]
  /\ nextDescId' = nextDescId + 1
  /\ result' = Resp("add_description", "ok", calls[p].caller,
                    calls[p].word_id, calls[p].word_text, nextDescId, <<>>)
  /\ calls' = [calls EXCEPT ![p] = IdleCall]

update_description_for_user(u, w, d, text) ==
  LET kind == get_sub_by_id_with_ownership(descriptions, u, w, d) IN
  IF kind # "ok"
  THEN /\ result' = Resp("update_description", kind, u, w, <<text>>, d, <<>>)
       /\ UNCHANGED <<descriptions, nextDescId>>
  ELSE /\ descriptions' = [descriptions EXCEPT ![d].text = text]
       /\ result' = Resp("update_description", "ok", u, w, <<text>>, d,
                         <<descriptions[d].text>>)
       /\ UNCHANGED nextDescId

delete_description_for_user(u, w, d) ==
  LET kind == get_sub_by_id_with_ownership(descriptions, u, w, d) IN
  IF kind # "ok"
  THEN /\ result' = Resp("delete_description", kind, u, w, <<>>, d, <<>>)
       /\ UNCHANGED <<descriptions, nextDescId>>
  ELSE /\ descriptions' = [descriptions EXCEPT ![d] = NoDoc]
       /\ result' = Resp("delete_description", "ok", u, w, <<>>, d, <<>>)
       /\ UNCHANGED nextDescId

add_example_for_user(u, w, text) ==
  IF get_word_details_for_user(u, w) # "ok"
  THEN /\ result' = Resp("add_example", get_word_details_for_user(u, w),
                         u, w, <<text>>, 0, <<>>)
       /\ UNCHANGED <<examples, nextExId>>
  ELSE /\ nextExId \in SubIds
       /\ examples' = [examples EXCEPT ![nextExId] =
                         create_sub_from_schema(w, text, u, FALSE)]
       /\ nextExId' = nextExId + 1
       /\ result' = Resp("add_example", "ok", u, w, <<text>>, nextExId, <<>>)

\* add_example_for_user up to its ownership check.
add_example_checks(p, u, w, text) ==
  /\ calls[p].pc = "idle"
  /\ IF get_word_details_for_user(u, w) # "ok"
     THEN /\ result' = Resp("add_example", get_word_details_for_user(u, w),
                            u, w, <<text>>, 0, <<>>)
          /\ UNCHANGED calls
     ELSE /\ calls' = [calls EXCEPT ![p] =
                         [IdleCall EXCEPT !.pc = "write",
                                          !.op = "add_example",
                                          !.caller = u,
                                          !.word_id = w,
                                          !.word_text = <<text>>]]
          /\ UNCHANGED result
  /\ UNCHANGED <<examples, nextExId>>

\* add_example_for_user from append_example_to_word_db to its return.
add_example_write(p) ==
  /\ calls[p].pc = "write"
  /\ calls[p].op = "add_example"
  /\ nextExId \in SubIds
  /\ examples' = [examples EXCEPT ![nextExId] =
                    create_sub_from_schema(calls[p].word_id,
                                           calls[p].word_text[1],
                                           calls[p].caller, FALSE)]
  /\ nextExId' = nextExId + 1
  /\ result' = Resp("add_example", "ok", calls[p].caller, calls[p].word_id,
                    calls[p].word_text, nextExId, <<>>)
  /\ calls' = [calls EXCEPT ![p] = IdleCall]

update_example_for_user(u, w, e, text) ==
  LET kind == get_sub_by_id_with_ownership(examples, u, w, e) IN
  IF kind # "ok"
  THEN /\ result' = Resp("update_example", kind, u, w, <<text>>, e, <<>>)
       /\ UNCHANGED <<examples, nextExId>>
  ELSE /\ examples' = [examples EXCEPT ![e].text = text]
       /\ result' = Resp("update_example", "ok", u, w, <<text>>, e,
                         <<examples[e].text>>)
       /\ UNCHANGED nextExId

delete_example_for_user(u, w, e) ==
  LET kind == get_sub_by_id_with_ownership(examples, u, w, e) IN
  IF kind # "ok"
  THEN /\ result' = Resp("delete_example", kind, u, w, <<>>, e, <<>>)
       /\ UNCHANGED <<examples, nextExId>>
  ELSE /\ examples' = [examples EXCEPT ![e] = NoDoc]
       /\ result' = Resp("delete_example", "ok", u, w, <<>>, e, <<>>)
       /\ UNCHANGED nextExId

(***************************************************************************)
(* Word-category links (services/word_category_service.py,                 *)
(* data_access/word_category_dal.py).                                      *)
(***************************************************************************)
\* A document id the store generates for each write, as collection.add()
\* does: some id no document has yet.
link_doc_id_generated(word_id, category_id) ==
  IF \E l \in LinkIds : ~links[l].exists
  THEN CHOOSE l \in LinkIds : ~links[l].exists
  ELSE <<word_id, category_id>>

\* link_id = f"{word_id}_{category_id}": the document id of the link of a
\* pair.  Store-generated ids hold no "_", so the id determines the pair.
link_doc_id(word_id, category_id) == <<word_id, category_id>>

\* word_category_dal.check_link_exists.
check_link_exists(word_id, category_id) ==
  /\ link_doc_id(word_id, category_id) \in LinkIds
  /\ links[link_doc_id(word_id, category_id)].exists

\* word_category_dal.link_word_to_category: set() on the link document.
\* The collection after the write.
link_word_to_category(user_id, word_id, category_id) ==
  [links EXCEPT ![link_doc_id(word_id, category_id)] =
     [exists |-> TRUE, word_id |-> word_id, category_id |-> category_id,
      user_id |-> user_id]]

\* word_category_dal.unlink_word_from_category: delete() on the document.
unlink_word_from_category(word_id, category_id) ==
  [links EXCEPT ![link_doc_id(word_id, category_id)] = NoDoc]

\* word_category_dal.get_word_ids_by_category_id: the word_id field of every
\* document whose category_id field is the category.
get_word_ids_by_category_id(category_id) ==
  {links[l].word_id :
     l \in {k \in LinkIds : links[k].exists
                            /\ links[k].category_id = category_id}}

\* A gate that reads the word and the category but compares no owner.
link_gate_any_owner(user_id, category_id, word_id) ==
  IF ~WordExists(word_id)
  THEN "NotFoundError"
  ELSE IF ~CatExists(category_id)
  THEN "NotFoundError"
  ELSE "ok"

\* The two ownership checks both link operations start with: the word, then
\* the category, each read through its DAL and compared with the caller.
link_gate(user_id, category_id, word_id) ==
  IF ~WordExists(word_id) \/ words[word_id].user_id # user_id
  THEN "NotFoundError"
  ELSE IF ~CatExists(category_id) \/ categories[category_id].user_id # user_id
  THEN "NotFoundError"
  ELSE "ok"

\* The checks without the existence check of the link.
add_word_to_category_gate_only(u, c, w) == link_gate(u, c, w)

\* The checks of add_word_to_category up to check_link_exists: "ok" or the
\* exception the first failing one raises.
add_word_to_category_checked(u, c, w) ==
  IF link_gate(u, c, w) # "ok" THEN link_gate(u, c, w)
  ELSE IF check_link_exists(w, c) THEN "DuplicateEntryError"
  ELSE "ok"

\* word_category_service.add_word_to_category, one call running alone.
add_word_to_category(u, c, w) ==
  IF add_word_to_category_checked(u, c, w) # "ok"
  THEN /\ result' = Resp("add_word_to_category",
                         add_word_to_category_checked(u, c, w), u, w,
                         <<>>, c, <<>>)
       /\ UNCHANGED links
  ELSE /\ links' = link_word_to_category(u, w, c)
       /\ result' = Resp("add_word_to_category", "ok", u, w, <<>>, c,
                         words[w].word_text)

\* add_word_to_category up to check_link_exists: the reads of request p.
add_word_to_category_checks(p, u, c, w) ==
  /\ calls[p].pc = "idle"
  /\ IF add_word_to_category_checked(u, c, w) # "ok"
     THEN /\ result' = Resp("add_word_to_category",
                            add_word_to_category_checked(u, c, w), u, w,
                            <<>>, c, <<>>)
          /\ UNCHANGED calls
     ELSE /\ calls' = [calls EXCEPT ![p] =
                         [IdleCall EXCEPT !.pc = "write",
                                          !.op = "add_word_to_category",
                                          !.caller = u,
                                          !.word_id = w,
                                          !.category_id = c,
                                          !.word_text = words[w].word_text]]
          /\ UNCHANGED result
  /\ UNCHANGED links

\* add_word_to_category from the link_word_to_category call to its return;
\* the message names the word as the request read it.
add_word_to_category_write(p) ==
  /\ calls[p].pc = "write"
  /\ calls[p].op = "add_word_to_category"
  /\ links' = link_word_to_category(calls[p].caller, calls[p].word_id,
                                    calls[p].category_id)
  /\ result' = Resp("add_word_to_category", "ok", calls[p].caller,
                    calls[p].word_id, <<>>, calls[p].category_id,
                    calls[p].word_text)
  /\ calls' = [calls EXCEPT ![p] = IdleCall]

\* word_category_service.remove_word_from_category.
remove_word_from_category(u, c, w) ==
  IF link_gate(u, c, w) # "ok"
  THEN /\ result' = Resp("remove_word_from_category", link_gate(u, c, w), u, w,
                         <<>>, c, <<>>)
       /\ UNCHANGED links
  ELSE IF ~check_link_exists(w, c)
  THEN /\ result' = Resp("remove_word_from_category", "NotFoundError", u, w,
                         <<>>, c, <<"not in category">>)
       /\ UNCHANGED links
  ELSE /\ links' = unlink_word_from_category(w, c)
       /\ result' = Resp("remove_word_from_category", "ok", u, w, <<>>, c,
                         words[w].word_text)

\* A listing that returns every linked word id, whatever became of the word.
get_words_for_category_all_linked(u, c) ==
  IF ~CatExists(c) \/ categories[c].user_id # u
  THEN /\ result' = Resp("get_words_for_category", "NotFoundError", u, 0,
                         <<>>, c, <<>>)
       /\ listed' = {}
  ELSE /\ result' = Resp("get_words_for_category", "ok", u, 0, <<>>, c, <<>>)
       /\ listed' = get_word_ids_by_category_id(c)

\* word_category_service.get_words_for_category: the category check, the
\* link query, then one get_word_by_id per linked id, keeping the words that
\* exist and are the caller's.  listed' is the set of words returned.
get_words_for_category(u, c) ==
  IF ~CatExists(c) \/ categories[c].user_id # u
  THEN /\ result' = Resp("get_words_for_category", "NotFoundError", u, 0,
                         <<>>, c, <<>>)
       /\ listed' = {}
  ELSE /\ result' = Resp("get_words_for_category", "ok", u, 0, <<>>, c, <<>>)
       /\ listed' = {w \in get_word_ids_by_category_id(c) :
                       WordExists(w) /\ words[w].user_id = u}


(***************************************************************************)
(* Prefix search (data_access/search_dal.py, services/search_service.py,   *)
(* routes/search_routes.py).  The store compares strings character by      *)
(* character in code point order; a name such as "U+FF41" stands for the   *)
(* one character with that code point.                                     *)
(***************************************************************************)
CodePoint(c) ==
  CASE c = " " -> 32
    [] c = "A" -> 65
    [] c = "B" -> 66
    [] c = "S" -> 83
    [] c = "T" -> 84
    [] c = "a" -> 97
    [] c = "b" -> 98
    [] c = "s" -> 115
    [] c = "t" -> 116
    [] c = "U+F8FF" -> 63743
    [] c = "U+FF41" -> 65345

\* s < t in the store's string order.
StrLess(s, t) ==
  \E i \in 1..(Len(s) + 1) :
    /\ i <= Len(t)
    /\ \A j \in 1..(i - 1) : s[j] = t[j]
    /\ (i = Len(s) + 1 \/ CodePoint(s[i]) < CodePoint(t[i]))

StrLessEq(s, t) == s = t \/ StrLess(s, t)

\* str.startswith.
StartsWith(s, prefix) ==
  Len(prefix) <= Len(s) /\ SubSeq(s, 1, Len(prefix)) = prefix

\* order_by(field): the ids in ascending order of key[id], equal keys in
\* ascending order of the document id.
RECURSIVE OrderBy(_, _)
OrderBy(ids, key) ==
  IF ids = {} THEN <<>>
  ELSE LET first == CHOOSE x \in ids :
                      \A y \in ids \ {x} :
                        \/ StrLess(key[x], key[y])
                        \/ key[x] = key[y] /\ x < y
       IN  <<first>> \o OrderBy(ids \ {first}, key)

\* The upper bound of the range: the query followed by the character U+F8FF.
range_end(query_lower) == query_lower \o <<"U+F8FF">>

\* search_dal.search_words_by_name.
search_words_by_name(user_id, query) ==
  LET query_lower == Lower(query) IN
  OrderBy({w \in WordIds :
             /\ words[w].exists
             /\ words[w].user_id = user_id
             /\ StrLessEq(query_lower, words[w].word_text_search)
             /\ StrLessEq(words[w].word_text_search, range_end(query_lower))},
          [w \in WordIds |->
             IF words[w].exists THEN words[w].word_text_search ELSE <<>>])

\* search_dal.search_categories_by_name.
search_categories_by_name(user_id, query) ==
  LET query_lower == Lower(query) IN
  OrderBy({c \in CatIds :
             /\ categories[c].exists
             /\ categories[c].user_id = user_id
             /\ StrLessEq(query_lower, categories[c].category_name_search)
             /\ StrLessEq(categories[c].category_name_search,
                          range_end(query_lower))},
          [c \in CatIds |->
             IF categories[c].exists THEN categories[c].category_name_search
             ELSE <<>>])

\* search_service.find_words_and_categories.
find_words_and_categories(user_id, query) ==
  [words |-> search_words_by_name(user_id, query),
   categories |-> search_categories_by_name(user_id, query)]

\* search_routes.search_route: the query is stripped, an empty one answers
\* two empty lists without a query to the store.
search_route(user_id, q) ==
  LET query == Strip(q) IN
  /\ search_results' = IF query = <<>> THEN NoFound
                        ELSE find_words_and_categories(user_id, query)
  /\ result' = Resp("search", "ok", user_id, 0, query, 0, <<>>)

(***************************************************************************)
(* Users, admins and admin-student relations (data_access/user_dal.py,     *)
(* data_access/admin_dal.py, data_access/admin_student_dal.py,             *)
(* services/admin_service.py).                                             *)
(***************************************************************************)
\* user_dal.create_user: the user document of the account is written.
create_user(user_id) ==
  /\ users' = users \cup {user_id}
  /\ result' = Resp("create_user", "ok", user_id, 0, <<>>, 0, <<>>)
  /\ UNCHANGED <<admins, relations>>

\* services/user_service.generate_random_code: eight random characters;
\* two calls may or may not draw the same code.
Codes == {"K1", "K2"}
UserNames == {"n1"}

\* What get_or_create_user_code decides from the snapshot it read
\* (_handle_existing_user / _handle_new_user): the store call to make
\* ("set", "update" or none), the fields it writes, and the code to return.
\* new_code is the code generate_random_code draws if it is called.
user_code_plan(uid, user_name, new_code) ==
  IF uid \notin users
  THEN [method |-> "set", data |-> <<"name", "code">>, code |-> new_code]
  ELSE LET existing_code == user_docs[uid].code
           name_fields == IF user_name # None
                             /\ user_name # user_docs[uid].name
                          THEN <<"name">> ELSE <<>>
           code_fields == IF existing_code # None THEN <<>> ELSE <<"code">>
           data_to_update == name_fields \o code_fields
       IN  [method |-> IF data_to_update # <<>> THEN "update" ELSE "",
            data |-> data_to_update,
            code |-> IF existing_code # None THEN existing_code
                     ELSE new_code]

HasField(data, f) == \E i \in 1..Len(data) : data[i] = f

\* user_doc_ref.set(data_to_save) / user_doc_ref.update(data_to_update): set
\* writes the whole document, update writes the named fields of a document
\* that exists.
user_code_store(uid, user_name, plan) ==
  IF plan.method = "set"
  THEN /\ users' = users \cup {uid}
       /\ user_docs' = [user_docs EXCEPT ![uid] =
                          [name |-> user_name, code |-> plan.code]]
  ELSE IF plan.method = "update" /\ uid \in users
  THEN /\ user_docs' = [user_docs EXCEPT ![uid] =
                          [name |-> IF HasField(plan.data, "name")
                                    THEN user_name ELSE @.name,
                           code |-> IF HasField(plan.data, "code")
                                    THEN plan.code ELSE @.code]]
       /\ UNCHANGED users
  ELSE UNCHANGED <<users, user_docs>>

\* services/user_service.get_or_create_user_code, run without another
\* request between its read and its write.
get_or_create_user_code(uid, user_name, new_code) ==
  LET plan == user_code_plan(uid, user_name, new_code) IN
  /\ user_code_store(uid, user_name, plan)
  /\ result' = Resp("get_or_create_user_code", "ok", uid, 0, <<user_name>>,
                    0, <<plan.code>>)

\* get_or_create_user_code up to the store call it decides on: the read of
\* the document and the branch on it.  Without a store call it returns.
get_or_create_user_code_read(p, uid, user_name, new_code) ==
  LET plan == user_code_plan(uid, user_name, new_code) IN
  /\ calls[p].pc = "idle"
  /\ IF plan.method = ""
     THEN /\ result' = Resp("get_or_create_user_code", "ok", uid, 0,
                            <<user_name>>, 0, <<plan.code>>)
          /\ UNCHANGED calls
     ELSE /\ calls' = [calls EXCEPT ![p] =
                         [IdleCall EXCEPT !.pc = "write",
                                          !.op = "get_or_create_user_code",
                                          !.caller = uid,
                                          !.student_id = user_name,
                                          !.method = plan.method,
                                          !.data = plan.data,
                                          !.code = plan.code]]
          /\ UNCHANGED result
  /\ UNCHANGED <<users, user_docs>>

\* get_or_create_user_code from its set / update call to its return.
get_or_create_user_code_write(p) ==
  /\ calls[p].pc = "write"
  /\ calls[p].op = "get_or_create_user_code"
  /\ user_code_store(calls[p].caller, calls[p].student_id,
                     [method |-> calls[p].method, data |-> calls[p].data,
                      code |-> calls[p].code])
  /\ result' = Resp("get_or_create_user_code", "ok", calls[p].caller, 0,
                    <<calls[p].student_id>>, 0, <<calls[p].code>>)
  /\ calls' = [calls EXCEPT ![p] = IdleCall]

\* user_dal.get_user_by_id: TRUE iff the document exists.
get_user_by_id(user_id) == user_id \in users

\* admin_dal.get_all_admin_ids.
get_all_admin_ids == {a \in Accounts : admins[a].exists}

\* A lookup that matches the id against the admin_id field.
get_link_by_admin_id(student_id) ==
  {r \in RelationIds : relations[r].exists
                       /\ relations[r].admin_id = student_id}

\* admin_student_dal.get_link_by_student_id: the documents the query
\* "student_id == student_id" matches; limit(1) returns one of them.
get_link_by_student_id(student_id) ==
  {r \in RelationIds : relations[r].exists
                       /\ relations[r].student_id = student_id}

\* admin_service.add_admin_privileges.
add_admin_privileges(user_id_to_promote, current_admin_id) ==
  IF ~get_user_by_id(user_id_to_promote)
  THEN /\ result' = Resp("promote", "NotFoundError", current_admin_id, 0,
                         <<user_id_to_promote>>, 0, <<>>)
       /\ UNCHANGED adminVars
  ELSE IF user_id_to_promote \in get_all_admin_ids
  THEN /\ result' = Resp("promote", "DuplicateEntryError", current_admin_id, 0,
                         <<user_id_to_promote>>, 0, <<>>)
       /\ UNCHANGED adminVars
  ELSE /\ admins' = [admins EXCEPT ![user_id_to_promote] =
                       [exists |-> TRUE, role |-> "admin",
                        assignedBy |-> current_admin_id]]
       /\ result' = Resp("promote", "ok", current_admin_id, 0,
                         <<user_id_to_promote>>, 0, <<>>)
       /\ UNCHANGED <<users, relations>>

\* admin_service.remove_admin_privileges.
remove_admin_privileges(user_id_to_demote) ==
  IF user_id_to_demote \notin get_all_admin_ids
  THEN /\ result' = Resp("demote", "NotFoundError", "", 0,
                         <<user_id_to_demote>>, 0, <<>>)
       /\ UNCHANGED adminVars
  ELSE /\ admins' = [admins EXCEPT ![user_id_to_demote] = NoDoc]
       /\ result' = Resp("demote", "ok", "", 0, <<user_id_to_demote>>, 0, <<>>)
       /\ UNCHANGED <<users, relations>>

\* schemas.RoleUpdateSchema: role is any string of 1 to 50 characters; these
\* are the values requests carry here.
RoleUpdateSchema == {"admin", "super-admin", "moderator"}

\* A role update that writes the record whether or not the user has one.
update_admin_role_upsert(user_id_to_update, role) ==
  /\ admins' = [admins EXCEPT ![user_id_to_update] =
                  [exists |-> TRUE, role |-> role,
                   assignedBy |-> IF admins[user_id_to_update].exists
                                  THEN admins[user_id_to_update].assignedBy
                                  ELSE ""]]
  /\ result' = Resp("update_role", "ok", "", 0, <<user_id_to_update>>, 0,
                    <<role>>)
  /\ UNCHANGED <<users, relations>>

\* admin_service.update_admin_role with admin_dal.update_admin_role: the
\* role field of the record is overwritten with the value of the schema.
update_admin_role(user_id_to_update, role) ==
  IF user_id_to_update \notin get_all_admin_ids
  THEN /\ result' = Resp("update_role", "NotFoundError", "", 0,
                         <<user_id_to_update>>, 0, <<role>>)
       /\ UNCHANGED adminVars
  ELSE /\ admins' = [admins EXCEPT ![user_id_to_update].role = role]
       /\ result' = Resp("update_role", "ok", "", 0, <<user_id_to_update>>, 0,
                         <<role>>)
       /\ UNCHANGED <<users, relations>>

\* A create_link that looks the student up first and writes nothing when the
\* student is already in a link.
create_link_if_unassigned(admin_id, student_id) ==
  IF get_link_by_student_id(student_id) # {}
  THEN relations
  ELSE [relations EXCEPT ![<<admin_id, student_id>>] =
          [exists |-> TRUE, admin_id |-> admin_id, student_id |-> student_id]]

\* admin_student_dal.create_link: set() on the document "<admin>_<student>",
\* with no read before it.  The collection after the write.
create_link(admin_id, student_id) ==
  [relations EXCEPT ![<<admin_id, student_id>>] =
     [exists |-> TRUE, admin_id |-> admin_id, student_id |-> student_id]]

\* The rules with the link lookup moved before the admin lookup.
assign_student_rules_link_first(admin_id, student_id_to_assign) ==
  LET existing == get_link_by_student_id(student_id_to_assign) IN
  IF ~get_user_by_id(student_id_to_assign)
  THEN {<<"NotFoundError", <<>>>>}
  ELSE IF existing # {}
  THEN {<<"DuplicateEntryError",
          IF relations[existing_link].admin_id = admin_id
          THEN <<"assigned to you">>
          ELSE <<"assigned to another admin">>>> : existing_link \in existing}
  ELSE IF student_id_to_assign \in get_all_admin_ids
  THEN {<<"DuplicateEntryError", <<"is an admin">>>>}
  ELSE {<<"ok", <<>>>>}

\* Rules 1..3 of assign_student_to_admin, in the order of the code: the
\* outcomes <<kind, message>> the checks can have in the current state
\* (several only when the limit(1) query can pick among several links).
assign_student_rules(admin_id, student_id_to_assign) ==
  LET existing == get_link_by_student_id(student_id_to_assign) IN
  IF ~get_user_by_id(student_id_to_assign)
  THEN {<<"NotFoundError", <<>>>>}
  ELSE IF student_id_to_assign \in get_all_admin_ids
  THEN {<<"DuplicateEntryError", <<"is an admin">>>>}
  ELSE IF existing # {}
  THEN {<<"DuplicateEntryError",
          IF relations[existing_link].admin_id = admin_id
          THEN <<"assigned to you">>
          ELSE <<"assigned to another admin">>>> : existing_link \in existing}
  ELSE {<<"ok", <<>>>>}

\* admin_service.assign_student_to_admin, one call running alone.
assign_student_to_admin(admin_id, student_id_to_assign) ==
  \E outcome \in assign_student_rules(admin_id, student_id_to_assign) :
    IF outcome[1] # "ok"
    THEN /\ result' = Resp("assign_student", outcome[1], admin_id, 0,
                           <<student_id_to_assign>>, 0, outcome[2])
         /\ UNCHANGED adminVars
    ELSE /\ relations' = create_link(admin_id, student_id_to_assign)
         /\ result' = Resp("assign_student", "ok", admin_id, 0,
                           <<student_id_to_assign>>, 0, <<>>)
         /\ UNCHANGED <<users, admins>>

\* assign_student_to_admin up to the end of Rule 3: the reads of request p.
\* A failed rule answers at once; otherwise the request goes on to its write.
assign_student_checks(p, admin_id, student_id_to_assign) ==
  /\ calls[p].pc = "idle"
  /\ \E outcome \in assign_student_rules(admin_id, student_id_to_assign) :
       IF outcome[1] # "ok"
       THEN /\ result' = Resp("assign_student", outcome[1], admin_id, 0,
                              <<student_id_to_assign>>, 0, outcome[2])
            /\ UNCHANGED calls
       ELSE /\ calls' = [calls EXCEPT ![p] =
                           [IdleCall EXCEPT !.pc = "write",
                                            !.op = "assign_student",
                                            !.caller = admin_id,
                                            !.student_id = student_id_to_assign]]
            /\ UNCHANGED result
  /\ UNCHANGED adminVars

\* assign_student_to_admin from the create_link call to its return.
assign_student_write(p) ==
  /\ calls[p].pc = "write"
  /\ calls[p].op = "assign_student"
  /\ relations' = create_link(calls[p].caller, calls[p].student_id)
  /\ result' = Resp("assign_student", "ok", calls[p].caller, 0,
                    <<calls[p].student_id>>, 0, <<>>)
  /\ calls' = [calls EXCEPT ![p] = IdleCall]
  /\ UNCHANGED <<users, admins>>

\* A removal that deletes whatever link the student has, whoever the admin.
remove_student_from_any_admin(admin_id, student_id_to_remove) ==
  LET existing == get_link_by_student_id(student_id_to_remove) IN
  \E found \in (IF existing = {} THEN {<<>>} ELSE existing) :
    IF found = <<>>
    THEN /\ result' = Resp("remove_student", "NotFoundError", admin_id, 0,
                           <<student_id_to_remove>>, 0, <<>>)
         /\ UNCHANGED adminVars
    ELSE /\ relations' = [relations EXCEPT ![found] = NoDoc]
         /\ result' = Resp("remove_student", "ok", admin_id, 0,
                           <<student_id_to_remove>>, 0, <<>>)
         /\ UNCHANGED <<users, admins>>

\* admin_service.remove_student_from_admin.
remove_student_from_admin(admin_id, student_id_to_remove) ==
  LET existing == get_link_by_student_id(student_id_to_remove) IN
  \E found \in (IF existing = {} THEN {<<>>} ELSE existing) :
    IF found = <<>> \/ relations[found].admin_id # admin_id
    THEN /\ result' = Resp("remove_student", "NotFoundError", admin_id, 0,
                           <<student_id_to_remove>>, 0, <<>>)
         /\ UNCHANGED adminVars
    ELSE /\ relations' = [relations EXCEPT
                            ![<<admin_id, student_id_to_remove>>] = NoDoc]
         /\ result' = Resp("remove_student", "ok", admin_id, 0,
                           <<student_id_to_remove>>, 0, <<>>)
         /\ UNCHANGED <<users, admins>>

(***************************************************************************)
(* The categories collection as the service finds it.  create_category     *)
(* cannot add to it, so the collection is whatever the store holds: any    *)
(* set of documents of the shape the service writes (name trimmed, search  *)
(* key its lowercase, one name per owner case-insensitively).              *)
(***************************************************************************)
StoredCategoryDocs ==
  {[exists |-> TRUE, user_id |-> u,
    category_name |-> normalize_category_name(n),
    category_name_search |-> Lower(normalize_category_name(n)),
    category_color |-> k] : u \in Callers, n \in CatNames, k \in Colors}

StoredCategories ==
  {cs \in [CatIds -> StoredCategoryDocs \cup {NoDoc}] :
     \A c1, c2 \in CatIds :
       (c1 # c2 /\ cs[c1].exists /\ cs[c2].exists
        /\ cs[c1].user_id = cs[c2].user_id)
       => cs[c1].category_name_search # cs[c2].category_name_search}

NoCategories == [c \in CatIds |-> NoDoc]

(***************************************************************************)
(* Initial state: no words, links, users, admins or relations, no call in  *)
(* flight, and a categories collection as described above.                 *)
(***************************************************************************)
Init ==
  /\ words = [w \in WordIds |-> NoDoc]
  /\ nextWordId = 1
  /\ descriptions = [s \in SubIds |-> NoDoc]
  /\ nextDescId = 1
  /\ examples = [s \in SubIds |-> NoDoc]
  /\ nextExId = 1
  /\ categories \in StoredCategories
  /\ links = [l \in LinkIds |-> NoDoc]
  /\ users = {}
  /\ admins = [a \in Accounts |-> NoDoc]
  /\ relations = [r \in RelationIds |-> NoDoc]
  /\ txn = [p \in Procs |-> IdleTxn]
  /\ starLog = [w \in WordIds |-> <<>>]
  /\ calls = [p \in Procs |-> IdleCall]
  /\ listed = {}
  /\ search_results = NoFound
  /\ user_docs = [a \in Accounts |-> NoUserDoc]
  /\ result = NoResp

InitWord == Init /\ categories = NoCategories

CreateWord ==
  /\ \E u \in Callers, t \in WordTexts :
       create_word_for_user(u, t, "t1", "t1")
  /\ UNCHANGED <<reqVars, adminVars, categories, links>>

UpdateWord ==
  /\ \E u \in Callers, w \in WordIds, t \in WordTexts :
       update_word_for_user(u, w, t)
  /\ UNCHANGED <<reqVars, adminVars, categories, links>>

DeleteWord ==
  /\ \E u \in Callers, w \in WordIds : delete_word_for_user(u, w)
  /\ UNCHANGED <<reqVars, adminVars, categories, links>>

ReadWord ==
  /\ \E u \in Callers, w \in WordIds : GetWord(u, w)
  /\ UNCHANGED <<reqVars, adminVars, categories, links>>

Star ==
  /\ \E p \in Procs, u \in Callers, w \in WordIds : StarBegin(p, u, w)
  /\ UNCHANGED <<reqVars, adminVars, categories, links>>

Commit ==
  /\ \E p \in Procs : StarCommit(p)
  /\ UNCHANGED <<reqVars, adminVars, categories, links>>

Retry ==
  /\ \E p \in Procs : StarRetry(p)
  /\ UNCHANGED <<reqVars, adminVars, categories, links>>

CreateCategory ==
  /\ \E u \in Callers, n \in CatNames, k \in Colors : create_category(u, n, k)
  /\ UNCHANGED <<reqVars, adminVars, wordVars, starVars, links>>

ReadCategory ==
  /\ \E u \in Callers, c \in CatIds : GetCategory(u, c)
  /\ UNCHANGED <<reqVars, adminVars, wordVars, starVars, links>>

UpdateCategory ==
  /\ \E u \in Callers, c \in CatIds, n \in CatNames \cup {NoName},
        k \in Colors \cup {NoColor} : update_category(c, u, n, k)
  /\ UNCHANGED <<reqVars, adminVars, wordVars, starVars, links>>

DeleteCategory ==
  /\ \E u \in Callers, c \in CatIds : delete_category(c, u)
  /\ UNCHANGED <<reqVars, adminVars, wordVars, starVars, links>>

AddDescription ==
  /\ \E u \in Callers, w \in WordIds, t \in SubTexts :
       add_description_for_user(u, w, t)
  /\ UNCHANGED <<reqVars, adminVars, words, nextWordId, examples, nextExId, categories, links,
                 starVars>>

UpdateDescription ==
  /\ \E u \in Callers, w \in WordIds, d \in SubIds, t \in SubTexts :
       update_description_for_user(u, w, d, t)
  /\ UNCHANGED <<reqVars, adminVars, words, nextWordId, examples, nextExId, categories, links,
                 starVars>>

DeleteDescription ==
  /\ \E u \in Callers, w \in WordIds, d \in SubIds :
       delete_description_for_user(u, w, d)
  /\ UNCHANGED <<reqVars, adminVars, words, nextWordId, examples, nextExId, categories, links,
                 starVars>>

AddExample ==
  /\ \E u \in Callers, w \in WordIds, t \in SubTexts :
       add_example_for_user(u, w, t)
  /\ UNCHANGED <<reqVars, adminVars, words, nextWordId, descriptions, nextDescId, categories,
                 links, starVars>>

UpdateExample ==
  /\ \E u \in Callers, w \in WordIds, e \in SubIds, t \in SubTexts :
       update_example_for_user(u, w, e, t)
  /\ UNCHANGED <<reqVars, adminVars, words, nextWordId, descriptions, nextDescId, categories,
                 links, starVars>>

DeleteExample ==
  /\ \E u \in Callers, w \in WordIds, e \in SubIds :
       delete_example_for_user(u, w, e)
  /\ UNCHANGED <<reqVars, adminVars, words, nextWordId, descriptions, nextDescId, categories,
                 links, starVars>>

AddWordToCategory ==
  /\ \E u \in Callers, c \in CatIds, w \in WordIds : add_word_to_category(u, c, w)
  /\ UNCHANGED <<reqVars, adminVars, wordVars, starVars, categories>>

RemoveWordFromCategory ==
  /\ \E u \in Callers, c \in CatIds, w \in WordIds :
       remove_word_from_category(u, c, w)
  /\ UNCHANGED <<reqVars, adminVars, wordVars, starVars, categories>>

RegisterUser ==
  /\ \E u \in Accounts : u \notin users /\ create_user(u)
  /\ UNCHANGED <<reqVars, contentVars>>

Promote ==
  /\ \E target \in Accounts, current \in Accounts :
       add_admin_privileges(target, current)
  /\ UNCHANGED <<reqVars, contentVars>>

Demote ==
  /\ \E target \in Accounts : remove_admin_privileges(target)
  /\ UNCHANGED <<reqVars, contentVars>>

AssignStudent ==
  /\ \E a \in Accounts, st \in Accounts : assign_student_to_admin(a, st)
  /\ UNCHANGED <<reqVars, contentVars>>

RemoveStudent ==
  /\ \E a \in Accounts, st \in Accounts : remove_student_from_admin(a, st)
  /\ UNCHANGED <<reqVars, contentVars>>

(***************************************************************************)
(* Word operations, one call at a time.                                    *)
(***************************************************************************)
NextWord == CreateWord \/ UpdateWord \/ DeleteWord \/ ReadWord

SpecWord == InitWord /\ [][NextWord]_vars

(***************************************************************************)
(* Word creation with its initial content, with and without a store write  *)
(* that fails on the way.                                                  *)
(***************************************************************************)
InitialTexts == {"t1", "t2"}

CreateWordWithContent ==
  /\ \E u \in Callers, t \in WordTexts, d \in InitialTexts, e \in InitialTexts :
       create_word_for_user(u, t, d, e)
  /\ UNCHANGED <<reqVars, adminVars, categories, links>>

CreateWordSubWriteFails ==
  /\ \E u \in Callers, t \in WordTexts, d \in InitialTexts, e \in InitialTexts,
        failed \in {"description", "example"} :
       create_word_sub_write_fails(u, t, d, e, failed)
  /\ UNCHANGED <<reqVars, adminVars, categories, links>>

NextCreate == CreateWordWithContent \/ CreateWordSubWriteFails \/ DeleteWord

SpecCreate == InitWord /\ [][NextCreate]_vars

(***************************************************************************)
(* Star calls of MaxProcs concurrent requests on the words of a small      *)
(* store, interleaved with creation and deletion.                          *)
(***************************************************************************)
StarCreateWord ==
  /\ nextWordId <= MaxStarWords
  /\ \E u \in Callers : create_word_for_user(u, <<"A">>, "t1", "t1")
  /\ UNCHANGED <<reqVars, adminVars, categories, links>>

NextStar == StarCreateWord \/ DeleteWord \/ Star \/ Commit \/ Retry

SpecStar == InitWord /\ [][NextStar]_vars

(***************************************************************************)
(* Star calls one after the other on a word, up to the last milestone.     *)
(***************************************************************************)
MilestoneStar ==
  /\ \A q \in Procs : txn[q].pc = "idle"
  /\ \E p \in Procs, u \in Callers, w \in WordIds :
       /\ WordExists(w) => words[w].word_stars < MaxMilestoneStars
       /\ atomic_update(p, u, w)
  /\ UNCHANGED <<wordVars, starLog>>
  /\ UNCHANGED <<reqVars, adminVars, categories, links>>

NextMilestone == StarCreateWord \/ MilestoneStar \/ Commit

SpecMilestone == InitWord /\ [][NextMilestone]_vars

(***************************************************************************)
(* Category operations, one call at a time.                                *)
(***************************************************************************)
NextCategory == CreateCategory \/ ReadCategory \/ UpdateCategory \/ DeleteCategory

SpecCategory == Init /\ [][NextCategory]_vars

(***************************************************************************)
(* All content operations of the callers on a small store: at most         *)
(* MaxSpecWords words are created and the categories found at the start    *)
(* are among the first MaxSpecCats ids.                                    *)
(***************************************************************************)
InitSpec ==
  /\ Init
  /\ \A c \in CatIds :
       categories[c].exists =>
         (c <= MaxSpecCats /\ categories[c].category_name = <<"t">>)

SpecCreateWord ==
  /\ nextWordId <= MaxSpecWords
  /\ \E u \in Callers : create_word_for_user(u, <<"A">>, "t1", "t1")
  /\ UNCHANGED <<reqVars, adminVars, categories, links>>

SpecUpdateWord ==
  /\ \E u \in Callers, w \in WordIds : update_word_for_user(u, w, <<"b">>)
  /\ UNCHANGED <<reqVars, adminVars, categories, links>>

SpecUpdateCategory ==
  /\ \E u \in Callers, c \in CatIds : update_category(c, u, <<"S">>, NoColor)
  /\ UNCHANGED <<reqVars, adminVars, wordVars, starVars, links>>

Next ==
  \/ SpecCreateWord \/ SpecUpdateWord \/ DeleteWord
  \/ AddDescription \/ UpdateDescription \/ DeleteDescription
  \/ UpdateExample \/ DeleteExample
  \/ CreateCategory \/ SpecUpdateCategory \/ DeleteCategory
  \/ AddWordToCategory \/ RemoveWordFromCategory

Spec == InitSpec /\ [][Next]_vars

(***************************************************************************)
(* Admin operations, one call at a time.                                   *)
(***************************************************************************)
NextAdmin == RegisterUser \/ Promote \/ Demote \/ AssignStudent \/ RemoveStudent

SpecAdmin == InitWord /\ [][NextAdmin]_vars

(***************************************************************************)
(* The admin records alone: registration, promote, updateRole, demote.     *)
(***************************************************************************)
UpdateRole ==
  /\ \E t \in Accounts, r \in RoleUpdateSchema : update_admin_role(t, r)
  /\ UNCHANGED <<reqVars, contentVars>>

NextRoles == RegisterUser \/ Promote \/ UpdateRole \/ Demote

SpecRoles == InitWord /\ [][NextRoles]_vars

(***************************************************************************)
(* The admin service behind its routes (routes/admin_routes.py): promote   *)
(* and demote are called for a super-admin, assign and remove for a holder *)
(* of an admin record, with the caller's id as admin_id.  The store starts *)
(* with one super-admin, whose record was written outside the service.     *)
(***************************************************************************)
admin_required(user_id) == admins[user_id].exists

super_admin_required(user_id) ==
  admin_required(user_id) /\ admins[user_id].role = "super-admin"

InitOffice ==
  /\ words = [w \in WordIds |-> NoDoc]
  /\ nextWordId = 1
  /\ descriptions = [s \in SubIds |-> NoDoc]
  /\ nextDescId = 1
  /\ examples = [s \in SubIds |-> NoDoc]
  /\ nextExId = 1
  /\ categories = NoCategories
  /\ links = [l \in LinkIds |-> NoDoc]
  /\ users = {"u1"}
  /\ admins = [a \in Accounts |->
                 IF a = "u1"
                 THEN [exists |-> TRUE, role |-> "super-admin", assignedBy |-> ""]
                 ELSE NoDoc]
  /\ relations = [r \in RelationIds |-> NoDoc]
  /\ txn = [p \in Procs |-> IdleTxn]
  /\ starLog = [w \in WordIds |-> <<>>]
  /\ calls = [p \in Procs |-> IdleCall]
  /\ listed = {}
  /\ search_results = NoFound
  /\ user_docs = [a \in Accounts |-> NoUserDoc]
  /\ result = NoResp

PromoteRoute ==
  /\ \E current \in Accounts, target \in Accounts :
       /\ super_admin_required(current)
       /\ add_admin_privileges(target, current)
  /\ UNCHANGED <<reqVars, contentVars>>

DemoteRoute ==
  /\ \E current \in Accounts, target \in Accounts :
       /\ super_admin_required(current)
       /\ remove_admin_privileges(target)
  /\ UNCHANGED <<reqVars, contentVars>>

AssignStudentRoute ==
  /\ \E a \in Accounts, st \in Accounts :
       /\ admin_required(a)
       /\ assign_student_to_admin(a, st)
  /\ UNCHANGED <<reqVars, contentVars>>

RemoveStudentRoute ==
  /\ \E a \in Accounts, st \in Accounts :
       /\ admin_required(a)
       /\ remove_student_from_admin(a, st)
  /\ UNCHANGED <<reqVars, contentVars>>

NextOffice ==
  \/ RegisterUser \/ PromoteRoute \/ DemoteRoute
  \/ AssignStudentRoute \/ RemoveStudentRoute

SpecOffice == InitOffice /\ [][NextOffice]_vars

(***************************************************************************)
(* The assignment handler as concurrent requests run it: its reads and its *)
(* write are separate steps, and other requests run between them.          *)
(***************************************************************************)
AssignStudentChecks ==
  /\ \E p \in Procs, a \in Accounts, s \in Accounts :
       assign_student_checks(p, a, s)
  /\ UNCHANGED <<listed, search_results, user_docs, contentVars>>

AssignStudentWrite ==
  /\ \E p \in Procs : assign_student_write(p)
  /\ UNCHANGED <<listed, search_results, user_docs, contentVars>>

NextAssignRace ==
  RegisterUser \/ AssignStudentChecks \/ AssignStudentWrite \/ RemoveStudent

SpecAssignRace == InitWord /\ [][NextAssignRace]_vars

(***************************************************************************)
(* The link service over a few words and the stored categories, one call   *)
(* at a time.                                                              *)
(***************************************************************************)
LinkCreateWord ==
  /\ \E u \in Callers, t \in {<<"A">>, <<"b">>} :
       create_word_for_user(u, t, "t1", "t1")
  /\ UNCHANGED <<reqVars, adminVars, categories, links>>

GetWordsForCategory ==
  /\ \E u \in Callers, c \in CatIds : get_words_for_category(u, c)
  /\ UNCHANGED <<calls, search_results, user_docs, adminVars, wordVars, starVars, categories, links>>

NextLink ==
  \/ LinkCreateWord \/ DeleteWord
  \/ AddWordToCategory \/ RemoveWordFromCategory \/ GetWordsForCategory

SpecLink == InitSpec /\ [][NextLink]_vars

(***************************************************************************)
(* add_word_to_category as concurrent requests run it: its reads and its   *)
(* write are separate steps.                                               *)
(***************************************************************************)
AddWordToCategoryChecks ==
  /\ \E p \in Procs, u \in Callers, c \in CatIds, w \in WordIds :
       add_word_to_category_checks(p, u, c, w)
  /\ UNCHANGED <<listed, search_results, user_docs, adminVars, wordVars, starVars, categories>>

AddWordToCategoryWrite ==
  /\ \E p \in Procs : add_word_to_category_write(p)
  /\ UNCHANGED <<listed, search_results, user_docs, adminVars, wordVars, starVars, categories>>

NextLinkRace ==
  \/ SpecCreateWord \/ DeleteWord
  \/ AddWordToCategoryChecks \/ AddWordToCategoryWrite
  \/ RemoveWordFromCategory

SpecLinkRace == InitSpec /\ [][NextLinkRace]_vars

(***************************************************************************)
(* add_description_for_user and add_example_for_user as concurrent         *)
(* requests run them, next to creates and deletes of the word: the         *)
(* ownership check and the write are separate steps.                       *)
(***************************************************************************)
AddDescriptionChecks ==
  /\ \E p \in Procs, u \in Callers, w \in WordIds, t \in SubTexts :
       add_description_checks(p, u, w, t)
  /\ UNCHANGED <<listed, search_results, user_docs, adminVars, words, nextWordId, examples, nextExId,
                 categories, links, starVars>>

AddDescriptionWrite ==
  /\ \E p \in Procs : add_description_write(p)
  /\ UNCHANGED <<listed, search_results, user_docs, adminVars, words, nextWordId, examples, nextExId,
                 categories, links, starVars>>

AddExampleChecks ==
  /\ \E p \in Procs, u \in Callers, w \in WordIds, t \in SubTexts :
       add_example_checks(p, u, w, t)
  /\ UNCHANGED <<listed, search_results, user_docs, adminVars, words, nextWordId, descriptions,
                 nextDescId, categories, links, starVars>>

AddExampleWrite ==
  /\ \E p \in Procs : add_example_write(p)
  /\ UNCHANGED <<listed, search_results, user_docs, adminVars, words, nextWordId, descriptions,
                 nextDescId, categories, links, starVars>>

NextSubRace ==
  \/ SpecCreateWord \/ DeleteWord
  \/ AddDescriptionChecks \/ AddDescriptionWrite
  \/ AddExampleChecks \/ AddExampleWrite

SpecSubRace == InitWord /\ [][NextSubRace]_vars

(***************************************************************************)
(* get_or_create_user_code: one call at a time (SpecUserCodeSerial), and   *)
(* as concurrent sign-ins run it, the read of the user document and the    *)
(* write that follows being separate store calls (SpecUserCode).  A user   *)
(* document written by user_dal.create_user has no "code" field.           *)
(***************************************************************************)
GetOrCreateUserCode ==
  /\ \E uid \in Accounts, user_name \in UserNames \cup {None},
        new_code \in Codes :
       get_or_create_user_code(uid, user_name, new_code)
  /\ UNCHANGED <<calls, listed, search_results, admins, relations, contentVars>>

GetOrCreateUserCodeRead ==
  /\ \E p \in Procs, uid \in Accounts, user_name \in UserNames \cup {None},
        new_code \in Codes :
       get_or_create_user_code_read(p, uid, user_name, new_code)
  /\ UNCHANGED <<listed, search_results, admins, relations, contentVars>>

GetOrCreateUserCodeWrite ==
  /\ \E p \in Procs : get_or_create_user_code_write(p)
  /\ UNCHANGED <<listed, search_results, admins, relations, contentVars>>

NextUserCodeSerial == RegisterUser \/ GetOrCreateUserCode

SpecUserCodeSerial == InitWord /\ [][NextUserCodeSerial]_vars

NextUserCode ==
  RegisterUser \/ GetOrCreateUserCodeRead \/ GetOrCreateUserCodeWrite

SpecUserCode == InitWord /\ [][NextUserCode]_vars

(***************************************************************************)
(* Search over the words a few creates leave and over stored categories,   *)
(* with texts that differ in case and in the character that follows a      *)
(* common prefix.                                                          *)
(***************************************************************************)
SearchTexts == {<<"a">>, <<"A", "b">>, <<"a", "U+FF41">>, <<"b">>}
SearchQueries == {<<"a">>, <<"A">>, <<"a", "b">>, <<"b", " ">>, <<" ">>}

SearchCategoryDocs ==
  {[exists |-> TRUE, user_id |-> u,
    category_name |-> normalize_category_name(n),
    category_name_search |-> Lower(normalize_category_name(n)),
    category_color |-> k] : u \in Callers, n \in SearchTexts, k \in Colors}

InitSearch ==
  /\ words = [w \in WordIds |-> NoDoc]
  /\ nextWordId = 1
  /\ descriptions = [s \in SubIds |-> NoDoc]
  /\ nextDescId = 1
  /\ examples = [s \in SubIds |-> NoDoc]
  /\ nextExId = 1
  /\ categories \in
       {cs \in [CatIds -> SearchCategoryDocs \cup {NoDoc}] :
          /\ \A c \in CatIds : cs[c].exists => c <= MaxSearchCats
          /\ \A c1, c2 \in CatIds :
               (c1 # c2 /\ cs[c1].exists /\ cs[c2].exists
                /\ cs[c1].user_id = cs[c2].user_id)
               => cs[c1].category_name_search # cs[c2].category_name_search}
  /\ links = [l \in LinkIds |-> NoDoc]
  /\ users = {}
  /\ admins = [a \in Accounts |-> NoDoc]
  /\ relations = [r \in RelationIds |-> NoDoc]
  /\ txn = [p \in Procs |-> IdleTxn]
  /\ starLog = [w \in WordIds |-> <<>>]
  /\ calls = [p \in Procs |-> IdleCall]
  /\ listed = {}
  /\ search_results = NoFound
  /\ user_docs = [a \in Accounts |-> NoUserDoc]
  /\ result = NoResp

SearchCreateWord ==
  /\ \E u \in Callers, t \in SearchTexts :
       create_word_for_user(u, t, "t1", "t1")
  /\ UNCHANGED <<reqVars, adminVars, categories, links>>

Search ==
  /\ \E u \in Callers, q \in SearchQueries : search_route(u, q)
  /\ UNCHANGED <<calls, listed, user_docs, adminVars, contentVars>>

NextSearch == SearchCreateWord \/ Search

SpecSearch == InitSearch /\ [][NextSearch]_vars

(***************************************************************************)
(* Properties.                                                             *)
(***************************************************************************)
\* user_id holds a word whose text equals t case-insensitively.
HoldsWord(user_id, t) ==
  \E w \in WordIds : /\ words[w].exists
                     /\ words[w].user_id = user_id
                     /\ Lower(words[w].word_text) = Lower(t)

OwnsWord(user_id, w) == WordExists(w) /\ words[w].user_id = user_id

\* C1: no star increment is lost: in every interleaving of star calls the
\* stored star count of a word equals the number of star calls on it that
\* returned success (a word starts at 0), so K calls that all succeed from
\* count n leave n + K.
C1_NoLostStar ==
  \A w \in WordIds :
    WordExists(w) => words[w].word_stars = Len(starLog[w])

\* Two star calls on one word both returned success and one of them had to
\* run its transaction body again because the other committed in between.
C1_Witness ==
  \E w \in WordIds :
    /\ WordExists(w)
    /\ Len(starLog[w]) >= 2
    /\ words[w].word_stars = Len(starLog[w])
    /\ \E i \in 1..Len(starLog[w]) : starLog[w][i].retried

\* C2: a star call answers NotFound exactly when the word is absent and
\* Forbidden exactly when it exists with another owner, and then no stored
\* document changes; otherwise the stored count grows by exactly one, the
\* other fields of the word stay, and the returned count is the stored one.
C2_StarOutcome ==
  [][(result'.op = "star" /\ result' # result) =>
       LET w == result'.id
           u == result'.caller
       IN  /\ result'.kind \in {"NotFoundError", "ForbiddenError", "ok"}
           /\ result'.kind = "NotFoundError" =>
                ~WordExists(w) /\ UNCHANGED wordVars
           /\ result'.kind = "ForbiddenError" =>
                WordExists(w) /\ words[w].user_id # u /\ UNCHANGED wordVars
           /\ result'.kind = "ok" =>
                /\ OwnsWord(u, w)
                /\ words'[w] = [words[w] EXCEPT !.word_stars = @ + 1]
                /\ result'.val = words'[w].word_stars
                /\ \A x \in WordIds \ {w} : words'[x] = words[x]
                /\ UNCHANGED <<descriptions, examples>>]_vars

\* A star call by a caller who does not own the existing word was refused.
C2_Witness ==
  /\ result.op = "star"
  /\ result.kind = "ForbiddenError"
  /\ WordExists(result.id)
  /\ words[result.id].word_stars > 0

\* C3: no two stored words of one owner have the same lowercase text.
C3_UniqueWordPerOwner ==
  \A w1, w2 \in WordIds :
    (/\ w1 # w2
     /\ words[w1].exists
     /\ words[w2].exists
     /\ words[w1].user_id = words[w2].user_id)
    => words[w1].word_text_search # words[w2].word_text_search

\* C4: create answers DuplicateEntry exactly when the caller already holds a
\* word with the same lowercase text, whatever other users hold; the error
\* carries the id of such a word and nothing is written.
C4_CreateDuplicate ==
  [][(result'.op = "create_word" /\ result' # result) =>
       LET u == result'.caller
           t == result'.arg
       IN  /\ result'.kind \in {"DuplicateEntryError", "ok"}
           /\ result'.kind = "DuplicateEntryError" <=> HoldsWord(u, t)
           /\ result'.kind = "DuplicateEntryError" =>
                /\ OwnsWord(u, result'.val)
                /\ Lower(words[result'.val].word_text) = Lower(t)
                /\ UNCHANGED wordVars
           /\ result'.kind = "ok" =>
                /\ ~WordExists(result'.id)
                /\ words'[result'.id].exists
                /\ words'[result'.id].user_id = u
                /\ words'[result'.id].word_text = t]_vars

\* A create was refused as a duplicate of a word typed in another letter
\* case, while the other user holds a word with that same lowercase text.
C4_Witness ==
  /\ result.op = "create_word"
  /\ result.kind = "DuplicateEntryError"
  /\ words[result.val].word_text # result.arg
  /\ \E u \in Callers \ {result.caller} : HoldsWord(u, result.arg)

\* C6: get, update and delete of a word answer NotFound exactly when the
\* word is absent or owned by another user, never Forbidden, and then the
\* words, descriptions and examples are unchanged.
C6_WordNotFound ==
  [][(result'.op \in {"get_word", "update_word", "delete_word"}
      /\ result' # result) =>
       /\ result'.kind \in {"NotFoundError", "ok"}
       /\ result'.kind = "NotFoundError" <=>
            ~OwnsWord(result'.caller, result'.id)
       /\ result'.kind = "NotFoundError" => UNCHANGED wordVars]_vars

\* A delete of an existing word by a caller who does not own it answered
\* NotFound.
C6_Witness ==
  /\ result.op = "delete_word"
  /\ result.kind = "NotFoundError"
  /\ WordExists(result.id)
  /\ words[result.id].user_id # result.caller

OwnsCategory(user_id, c) == CatExists(c) /\ categories[c].user_id = user_id

\* Another category of user_id, different from c, holds the name
\* case-insensitively once the name is trimmed.
HoldsCategoryName(user_id, c, name) ==
  \E o \in CatIds :
    /\ o # c
    /\ OwnsCategory(user_id, o)
    /\ Lower(categories[o].category_name) = Lower(Strip(name))

\* C8 (invariant part): no two stored categories of one owner have names
\* that are equal case-insensitively.
C8_UniquePerOwner ==
  \A c1, c2 \in CatIds :
    (c1 # c2 /\ CatExists(c1) /\ CatExists(c2)
     /\ categories[c1].user_id = categories[c2].user_id)
    => Lower(categories[c1].category_name) # Lower(categories[c2].category_name)

\* C8 (step part): a create or rename to a name that another category of the
\* caller holds in any letter case is rejected and writes nothing; a rename
\* of the caller's own category to a name no other category of the caller
\* holds is carried out even when another user holds that name.
C8_RejectDuplicate ==
  (result'.op \in {"create_category", "update_category"} /\ result' # result) =>
    LET u == result'.caller
        c == result'.id
        name == result'.arg
    IN  /\ (result'.op = "create_category" /\ HoldsCategoryName(u, 0, name))
           => (result'.kind = "CategoryServiceError" /\ UNCHANGED categories)
        /\ (result'.op = "update_category" /\ OwnsCategory(u, c)
            /\ name # NoName)
           => IF HoldsCategoryName(u, c, name)
              THEN result'.kind = "CategoryServiceError"
                   /\ UNCHANGED categories
              ELSE /\ result'.kind = "ok"
                   /\ categories'[c].category_name = Strip(name)
                   /\ categories'[c].user_id = u

C9_CategoryNotFound ==
  [][(/\ result'.op \in {"get_category", "update_category", "delete_category"}
      /\ result' # result
      /\ ~OwnsCategory(result'.caller, result'.id))
     => (result'.kind = "NotFoundError" /\ UNCHANGED categories)]_vars

\* What the category gate does guarantee: the refusal is the same for an
\* absent and a foreign category and nothing is written.
CategoryGateRefuses ==
  [][(/\ result'.op \in {"get_category", "update_category", "delete_category"}
      /\ result' # result
      /\ ~OwnsCategory(result'.caller, result'.id))
     => (result'.kind = "CategoryServiceError" /\ UNCHANGED categories)]_vars

ContentOps ==
  {"create_word", "update_word", "delete_word", "get_word", "star",
   "add_description", "update_description", "delete_description",
   "add_example", "update_example", "delete_example",
   "create_category", "get_category", "update_category", "delete_category",
   "add_word_to_category", "remove_word_from_category"}

\* Every document of coll that exists and belongs to somebody other than
\* user_id is the same after the step.
OthersUnchanged(coll, collNext, ids, user_id) ==
  \A i \in ids :
    (coll[i].exists /\ coll[i].user_id # user_id) => collNext[i] = coll[i]

LinksOfStudent(student_id) ==
  {r \in RelationIds : relations[r].exists /\ relations[r].student_id = student_id}

\* C10: after any sequence of non-overlapping assignStudent and
\* removeStudent calls each student id appears in at most one
\* admin-student link.
C10_OneAdminPerStudent ==
  \A st \in Accounts : Cardinality(LinksOfStudent(st)) <= 1

\* C10 witness: an admin's assignment of a student was refused because the
\* student is linked to another admin, after the student had been removed
\* from one admin and assigned to the other.
C10_Witness ==
  /\ result.op = "assign_student"
  /\ result.kind = "DuplicateEntryError"
  /\ result.out = <<"assigned to another admin">>
  /\ \E r \in LinksOfStudent(result.arg[1]) : relations[r].admin_id # result.caller

(***************************************************************************)
(* C11.  Two assignStudent calls for the same student by different admins, *)
(* interleaved so that both pass their checks before either writes, both   *)
(* succeed: a request that has passed its checks writes its link and       *)
(* answers success whatever links were written since it read, and no other *)
(* link is touched by that write.  C11_Witness is the state the claim      *)
(* names, with the student in two links.                                   *)
(***************************************************************************)
C11_RaceBothSucceed ==
  [][\A p \in Procs :
       (calls[p].pc = "write" /\ calls[p].op = "assign_student"
        /\ calls'[p].pc = "idle")
       => /\ relations'[<<calls[p].caller, calls[p].student_id>>] =
               [exists |-> TRUE, admin_id |-> calls[p].caller,
                student_id |-> calls[p].student_id]
          /\ \A r \in RelationIds \ {<<calls[p].caller, calls[p].student_id>>} :
               relations'[r] = relations[r]
          /\ result' = Resp("assign_student", "ok", calls[p].caller, 0,
                            <<calls[p].student_id>>, 0, <<>>)]_vars

C11_Witness ==
  \E s \in Accounts, a1, a2 \in Accounts :
    /\ a1 # a2
    /\ relations[<<a1, s>>].exists
    /\ relations[<<a2, s>>].exists
    /\ Cardinality(LinksOfStudent(s)) = 2
    /\ \A p \in Procs : calls[p].pc = "idle"
    /\ result = Resp("assign_student", "ok", a2, 0, <<s>>, 0, <<>>)

(***************************************************************************)
(* C12.  While the link of student S to admin A1 exists, every             *)
(* assignStudent(A2, S) with A2 # A1 fails with DuplicateEntry and writes  *)
(* no link; and when removeStudent(A1, S) has succeeded, the assignStudent *)
(* (A2, S) that follows it succeeds.                                       *)
(***************************************************************************)
C12_BlockedWhileLinked ==
  (result'.op = "assign_student" /\ result' # result)
  => \A s \in Accounts, a1 \in Accounts :
       (relations[<<a1, s>>].exists /\ result'.arg = <<s>>
        /\ result'.caller # a1)
       => (result'.kind = "DuplicateEntryError" /\ UNCHANGED relations)

C12_FreeAfterRemove ==
  (result.op = "remove_student" /\ result.kind = "ok"
   /\ result'.op = "assign_student" /\ result'.arg = result.arg
   /\ result'.caller # result.caller)
  => result'.kind = "ok"

C12_ExclusiveUntilRemoved ==
  [][C12_BlockedWhileLinked /\ C12_FreeAfterRemove]_vars

\* What does hold of the calls C12 is about: the first half as stated, and
\* the second half for a student that holds no admin record.
AssignBlockedAndFreedUnlessAdmin ==
  [][/\ C12_BlockedWhileLinked
     /\ (result.op = "remove_student" /\ result.kind = "ok"
         /\ result.arg \in {<<s>> : s \in Accounts \ get_all_admin_ids})
        => C12_FreeAfterRemove]_vars

(***************************************************************************)
(* C13.  removeStudent(A, S) deletes a link only when S's existing link    *)
(* belongs to A, and then deletes exactly that link; when S has no link or *)
(* is linked to a different admin it fails with NotFound and every         *)
(* admin-student link is left unchanged.                                   *)
(***************************************************************************)
C13_RemoveOnlyOwnLink ==
  [][(result'.op = "remove_student" /\ result' # result)
     => \E a \in Accounts, s \in Accounts :
          /\ result'.caller = a
          /\ result'.arg = <<s>>
          /\ IF \E r \in LinksOfStudent(s) : relations[r].admin_id = a
             THEN /\ result'.kind = "ok"
                  /\ relations' = [relations EXCEPT ![<<a, s>>] = NoDoc]
             ELSE /\ result'.kind = "NotFoundError"
                  /\ UNCHANGED relations]_vars

C13_Witness ==
  \E a \in Accounts, s \in Accounts :
    /\ result = Resp("remove_student", "NotFoundError", a, 0, <<s>>, 0, <<>>)
    /\ LinksOfStudent(s) # {}
    /\ \A r \in LinksOfStudent(s) : relations[r].admin_id # a

(***************************************************************************)
(* C14.  assignStudent(A, S) reports the first failing precondition in a   *)
(* fixed order: S is no user gives NotFound; otherwise S holds an admin    *)
(* record gives DuplicateEntry, also when S has a link; otherwise S linked *)
(* to A gives the "already assigned to you" DuplicateEntry; otherwise S    *)
(* linked to another admin gives the "already assigned to another admin"   *)
(* DuplicateEntry.  The link is written only when all checks pass, and a   *)
(* failing call writes nothing.                                            *)
(***************************************************************************)
C14_AssignRuleOrder ==
  [][(result'.op = "assign_student" /\ result' # result)
     => \E a \in Accounts, s \in Accounts :
          /\ result'.caller = a
          /\ result'.arg = <<s>>
          /\ UNCHANGED <<users, admins>>
          /\ IF s \notin users
             THEN /\ result'.kind = "NotFoundError"
                  /\ UNCHANGED relations
             ELSE IF admins[s].exists
             THEN /\ result'.kind = "DuplicateEntryError"
                  /\ result'.out = <<"is an admin">>
                  /\ UNCHANGED relations
             ELSE IF relations[<<a, s>>].exists
             THEN /\ result'.kind = "DuplicateEntryError"
                  /\ result'.out = <<"assigned to you">>
                  /\ UNCHANGED relations
             ELSE IF LinksOfStudent(s) # {}
             THEN /\ result'.kind = "DuplicateEntryError"
                  /\ result'.out = <<"assigned to another admin">>
                  /\ UNCHANGED relations
             ELSE /\ result'.kind = "ok"
                  /\ relations' = [relations EXCEPT ![<<a, s>>] =
                                     [exists |-> TRUE, admin_id |-> a,
                                      student_id |-> s]]]_vars

C14_Witness ==
  \E a \in Accounts, s \in Accounts :
    /\ result = Resp("assign_student", "DuplicateEntryError", a, 0, <<s>>, 0,
                     <<"is an admin">>)
    /\ admins[s].exists
    /\ LinksOfStudent(s) # {}

(***************************************************************************)
(* C15.  link(U, C, W) writes a link document only if word W exists and is *)
(* owned by U and category C exists and is owned by U; if either check     *)
(* fails the outcome is NotFound and no link document is written.          *)
(***************************************************************************)
C15_LinkNeedsBothOwned ==
  [][(result'.op = "add_word_to_category" /\ result' # result)
     => \E u \in Callers, c \in CatIds, w \in WordIds :
          /\ result'.caller = u
          /\ result'.id = w
          /\ result'.val = c
          /\ links' # links => (OwnsWord(u, w) /\ OwnsCategory(u, c))
          /\ ~(OwnsWord(u, w) /\ OwnsCategory(u, c))
             => (result'.kind = "NotFoundError" /\ UNCHANGED links)]_vars

C15_Witness ==
  \E u \in Callers, c \in CatIds, w \in WordIds :
    /\ result = Resp("add_word_to_category", "NotFoundError", u, w, <<>>, c,
                     <<>>)
    /\ OwnsWord(u, w)
    /\ CatExists(c)
    /\ ~OwnsCategory(u, c)
    /\ \A l \in LinkIds : ~links[l].exists

(***************************************************************************)
(* C16.  For a caller that owns word W and category C: link(U, C, W) when  *)
(* the link for (W, C) already exists fails with DuplicateEntry and leaves *)
(* the link unchanged.  unlink(U, C, W) when no link for (W, C) exists     *)
(* fails with NotFound and writes nothing.  After a successful unlink,     *)
(* linking the same pair again succeeds.                                   *)
(***************************************************************************)
C16_LinkTwice ==
  (result'.op = "add_word_to_category" /\ result' # result)
  => \A u \in Callers, c \in CatIds, w \in WordIds :
       (/\ result'.caller = u /\ result'.id = w /\ result'.val = c
        /\ OwnsWord(u, w) /\ OwnsCategory(u, c)
        /\ links[<<w, c>>].exists)
       => (result'.kind = "DuplicateEntryError" /\ UNCHANGED links)

C16_UnlinkAbsent ==
  (result'.op = "remove_word_from_category" /\ result' # result)
  => \A c \in CatIds, w \in WordIds :
       (result'.id = w /\ result'.val = c /\ ~links[<<w, c>>].exists)
       => (result'.kind = "NotFoundError" /\ UNCHANGED links)

C16_RelinkAfterUnlink ==
  (/\ result.op = "remove_word_from_category" /\ result.kind = "ok"
   /\ result'.op = "add_word_to_category"
   /\ result'.caller = result.caller /\ result'.id = result.id
   /\ result'.val = result.val)
  => (result'.kind = "ok" /\ links'[<<result.id, result.val>>].exists)

LinkDocsOf(w, c) ==
  {l \in LinkIds : links[l].exists /\ links[l].word_id = w
                   /\ links[l].category_id = c}

C17_OneLinkPerPair ==
  \A w \in WordIds, c \in CatIds : Cardinality(LinkDocsOf(w, c)) <= 1

C17_Witness ==
  \E p \in Procs, w \in WordIds, c \in CatIds :
    /\ calls[p].pc = "write"
    /\ calls[p].op = "add_word_to_category"
    /\ calls[p].word_id = w
    /\ calls[p].category_id = c
    /\ Cardinality(LinkDocsOf(w, c)) = 1
    /\ result = Resp("add_word_to_category", "ok", calls[p].caller, w, <<>>,
                     c, calls[p].word_text)

(***************************************************************************)
(* C18.  wordsForCategory(U, C) fails with NotFound unless category C      *)
(* exists and is owned by U; otherwise it returns exactly the words that   *)
(* are linked to C, still exist and are owned by U.  A link whose word was *)
(* deleted or belongs to another user contributes nothing to the result.   *)
(***************************************************************************)
C18_WordsForCategory ==
  [][(result'.op = "get_words_for_category" /\ result' # result)
     => \E u \in Callers, c \in CatIds :
          /\ result'.caller = u
          /\ result'.val = c
          /\ IF ~OwnsCategory(u, c)
             THEN result'.kind = "NotFoundError"
             ELSE /\ result'.kind = "ok"
                  /\ listed' = {w \in WordIds : /\ links[<<w, c>>].exists
                                                /\ OwnsWord(u, w)}]_vars

C18_Witness ==
  \E u \in Callers, c \in CatIds, w1, w2 \in WordIds :
    /\ result = Resp("get_words_for_category", "ok", u, 0, <<>>, c, <<>>)
    /\ listed = {w1}
    /\ OwnsWord(u, w1)
    /\ links[<<w1, c>>].exists
    /\ links[<<w2, c>>].exists
    /\ ~WordExists(w2)

(***************************************************************************)
(* C19.  A user's admin record changes only along these transitions:       *)
(* promote creates a record with role "admin" and assignedBy = the         *)
(* promoter, only for an existing user without a record (NotFound if no    *)
(* such user, DuplicateEntry if already an admin); updateRole changes the  *)
(* role, and nothing else, only of a user that has a record (NotFound      *)
(* otherwise); demote deletes the record only of a user that has one       *)
(* (NotFound otherwise), after which the user can be promoted again.       *)
(* Every rejected call leaves all admin records unchanged.                 *)
(***************************************************************************)
C19_Promote ==
  (result'.op = "promote" /\ result' # result)
  => \E t \in Accounts :
       /\ result'.arg = <<t>>
       /\ IF t \notin users
          THEN result'.kind = "NotFoundError" /\ UNCHANGED admins
          ELSE IF admins[t].exists
          THEN result'.kind = "DuplicateEntryError" /\ UNCHANGED admins
          ELSE /\ result'.kind = "ok"
               /\ admins' = [admins EXCEPT ![t] =
                               [exists |-> TRUE, role |-> "admin",
                                assignedBy |-> result'.caller]]

C19_UpdateRole ==
  (result'.op = "update_role" /\ result' # result)
  => \E t \in Accounts, r \in RoleUpdateSchema :
       /\ result'.arg = <<t>>
       /\ result'.out = <<r>>
       /\ IF ~admins[t].exists
          THEN result'.kind = "NotFoundError" /\ UNCHANGED admins
          ELSE /\ result'.kind = "ok"
               /\ admins' = [admins EXCEPT ![t] =
                               [exists |-> TRUE, role |-> r,
                                assignedBy |-> admins[t].assignedBy]]

C19_Demote ==
  (result'.op = "demote" /\ result' # result)
  => \E t \in Accounts :
       /\ result'.arg = <<t>>
       /\ IF ~admins[t].exists
          THEN result'.kind = "NotFoundError" /\ UNCHANGED admins
          ELSE /\ result'.kind = "ok"
               /\ admins' = [admins EXCEPT ![t] = NoDoc]

C19_PromoteAfterDemote ==
  (/\ result.op = "demote" /\ result.kind = "ok"
   /\ result'.op = "promote" /\ result'.arg = result.arg)
  => result'.kind = "ok"

C19_OnlyTheseChange ==
  admins' # admins
  => (result'.op \in {"promote", "update_role", "demote"}
      /\ result'.kind = "ok" /\ result' # result)

C19_AdminRecordTransitions ==
  [][/\ C19_Promote /\ C19_UpdateRole /\ C19_Demote
     /\ C19_PromoteAfterDemote /\ C19_OnlyTheseChange]_vars

C19_Witness ==
  \E t \in Accounts, by \in Accounts :
    /\ result = Resp("update_role", "ok", "", 0, <<t>>, 0, <<"super-admin">>)
    /\ admins[t] = [exists |-> TRUE, role |-> "super-admin",
                    assignedBy |-> by]
    /\ t # by

(***************************************************************************)
(* C20.  In every reachable state the role stored in every admin record is *)
(* either "admin" or "super-admin".                                        *)
(***************************************************************************)
C20_RolesAreKnown ==
  \A a \in Accounts :
    admins[a].exists => admins[a].role \in {"admin", "super-admin"}

(***************************************************************************)
(* C28.  After any sequence of promote, demote, assignStudent and          *)
(* removeStudent calls, no user who holds an admin record appears as the   *)
(* student of an admin-student link, also when a user already assigned as  *)
(* a student is promoted.                                                  *)
(***************************************************************************)
C28_NoAdminIsStudent ==
  \A s \in Accounts : admins[s].exists => LinksOfStudent(s) = {}

(***************************************************************************)
(* C29.  After any sequence of promote, demote, assignStudent and          *)
(* removeStudent calls, the admin_id of every admin-student link belongs   *)
(* to a user who holds an admin record: a demoted admin's links are gone.  *)
(***************************************************************************)
C29_LinkAdminHoldsRecord ==
  \A r \in RelationIds :
    relations[r].exists => admins[relations[r].admin_id].exists

(***************************************************************************)
(* C27.  In every reachable state each stored word-category link refers to *)
(* a word and a category that both still exist: deleting a word or a       *)
(* category leaves no link to it behind.                                   *)
(***************************************************************************)
C27_NoDanglingLink ==
  \A l \in LinkIds :
    links[l].exists
    => (WordExists(links[l].word_id) /\ CatExists(links[l].category_id))

\* The two halves of C27 apart: links to deleted words, links to deleted
\* categories.
NoLinkToDeletedWord ==
  \A l \in LinkIds : links[l].exists => WordExists(links[l].word_id)

NoLinkToDeletedCategory ==
  \A l \in LinkIds : links[l].exists => CatExists(links[l].category_id)

(***************************************************************************)
(* C22.  For every new star count n returned by a successful star call,    *)
(* prompt_for_description is true exactly when n is in {5, 10, 15, 20} and *)
(* prompt_for_example exactly when n is in {10, 20, 30, 40}; n is the      *)
(* count after the increment, and the stored word changes in its star      *)
(* count only: nothing about the flags is stored.                          *)
(***************************************************************************)
C22_Milestones ==
  [][(result'.op = "star" /\ result'.kind = "ok" /\ result' # result)
     => LET n == result'.val
            w == result'.id
            flags == {result'.arg[i] : i \in 1..Len(result'.arg)}
        IN  /\ n = words[w].word_stars + 1
            /\ ("prompt_for_description" \in flags) <=> (n \in {5, 10, 15, 20})
            /\ ("prompt_for_example" \in flags) <=> (n \in {10, 20, 30, 40})
            /\ flags \subseteq {"prompt_for_description", "prompt_for_example"}
            /\ words' = [words EXCEPT ![w].word_stars = n]]_vars

C22_Witness ==
  /\ result.op = "star"
  /\ result.kind = "ok"
  /\ result.val = 10
  /\ result.arg = <<"prompt_for_description", "prompt_for_example">>
  /\ words[result.id].word_stars = 10

(***************************************************************************)
(* C26.  When K star calls on the same word, starting from stored count n, *)
(* all commit in any interleaving, the new_star_count values returned to   *)
(* the K callers are exactly n+1, ..., n+K, each returned to exactly one   *)
(* caller (n = 0 for a word since its creation), so each milestone count   *)
(* is reported to exactly one caller.                                      *)
(***************************************************************************)
C26_ReturnedCounts ==
  \A w \in WordIds :
    \A i \in 1..Len(starLog[w]) : starLog[w][i].new_star_count = i

C26_Witness ==
  \E w \in WordIds :
    /\ Len(starLog[w]) = 2
    /\ starLog[w][1].new_star_count = 1
    /\ starLog[w][2].new_star_count = 2
    /\ starLog[w][2].retried
    /\ result.op = "star"
    /\ result.val = 2

(***************************************************************************)
(* C23.  After create(U, text, d, e) returns success, the stored word has  *)
(* owner U and star count 0 and owns exactly one description (text d) and  *)
(* exactly one example (text e), both with is_initial = true and owner U.  *)
(***************************************************************************)
SubsOf(coll, w) == {s \in SubIds : coll[s].exists /\ coll[s].word_id = w}

C23_CreatedWithContent ==
  [][(result'.op = "create_word" /\ result'.kind = "ok" /\ result' # result)
     => LET w == result'.id
            u == result'.caller
        IN  /\ words'[w].exists
            /\ words'[w].user_id = u
            /\ words'[w].word_text = result'.arg
            /\ words'[w].word_stars = 0
            /\ \E s \in SubIds :
                 /\ SubsOf(descriptions', w) = {s}
                 /\ descriptions'[s].text = result'.out[1]
                 /\ descriptions'[s].is_initial
                 /\ descriptions'[s].user_id = u
            /\ \E s \in SubIds :
                 /\ SubsOf(examples', w) = {s}
                 /\ examples'[s].text = result'.out[2]
                 /\ examples'[s].is_initial
                 /\ examples'[s].user_id = u]_vars

C23_Witness ==
  /\ result.op = "create_word"
  /\ result.kind = "ok"
  /\ result.out = <<"t1", "t2">>
  /\ words[result.id].word_stars = 0
  /\ \E s \in SubsOf(descriptions, result.id) : descriptions[s].text = "t1"
  /\ \E s \in SubsOf(examples, result.id) : examples[s].text = "t2"

(***************************************************************************)
(* C24.  If the store write of the initial description or of the initial   *)
(* example fails after the word document was written, create returns a     *)
(* service error and the word document stays stored (no rollback): the     *)
(* word exists with fewer than its two initial sub-entities.               *)
(***************************************************************************)
C24_NoRollback ==
  [][(result'.op = "create_word" /\ result'.kind = "WordServiceError"
      /\ result' # result)
     => LET w == nextWordId
        IN  /\ ~WordExists(w)
            /\ words'[w].exists
            /\ words'[w].user_id = result'.caller
            /\ words'[w].word_text = result'.arg
            /\ Cardinality(SubsOf(descriptions', w))
               + Cardinality(SubsOf(examples', w)) < 2
            /\ \A x \in WordIds \ {w} : words'[x] = words[x]]_vars

C24_Witness ==
  \E w \in WordIds :
    /\ result.op = "create_word"
    /\ result.kind = "WordServiceError"
    /\ WordExists(w)
    /\ words[w].word_text = result.arg
    /\ words[w].user_id = result.caller
    /\ Cardinality(SubsOf(descriptions, w)) = 1
    /\ SubsOf(examples, w) = {}

(***************************************************************************)
(* C30.  In every reachable state every stored description and example     *)
(* belongs to a word that still exists: a successful delete(U, W) removes  *)
(* all descriptions and examples of W together with W, including when the  *)
(* delete interleaves with an add-description or add-example call by U on  *)
(* W that already passed its ownership check.                              *)
(***************************************************************************)
C30_SubsBelongToWords ==
  \A s \in SubIds :
    /\ descriptions[s].exists => WordExists(descriptions[s].word_id)
    /\ examples[s].exists => WordExists(examples[s].word_id)


(***************************************************************************)
(* C25.  Once a user document holds a code, no later get-or-create call    *)
(* for that user changes the stored code, in every sequence and every      *)
(* interleaving of get-or-create calls (including two concurrent first     *)
(* sign-ins of the same user); a code is generated only when the document  *)
(* is absent or has no code field, and the code returned to a caller is    *)
(* the one that stays stored.                                              *)
(***************************************************************************)
C25_CodeStaysStored ==
  [][/\ \A u \in Accounts :
          user_docs[u].code # None => user_docs'[u].code = user_docs[u].code
     /\ (result'.op = "get_or_create_user_code" /\ result' # result)
          => user_docs'[result'.caller].code = result'.out[1]]_vars


(***************************************************************************)
(* C21.  search(U, q) for a non-empty query q returns, for words and       *)
(* independently for categories, exactly the entities owned by U whose     *)
(* lowercase search key starts with lowercase(q): none missing, none that  *)
(* does not start with the prefix, none owned by another user, ordered     *)
(* ascending by search key.                                                *)
(***************************************************************************)
Elems(seq) == {seq[i] : i \in 1..Len(seq)}

Ascending(seq, key) ==
  \A i, j \in 1..Len(seq) : i < j => StrLessEq(key[seq[i]], key[seq[j]])

WordKeys == [w \in WordIds |->
               IF words[w].exists THEN words[w].word_text_search ELSE <<>>]

CategoryKeys == [c \in CatIds |->
                   IF categories[c].exists
                   THEN categories[c].category_name_search ELSE <<>>]

C21_SearchExact ==
  [][(result'.op = "search" /\ result'.arg # <<>>
      /\ <<result', search_results'>> # <<result, search_results>>)
     => LET u == result'.caller
            q == Lower(result'.arg)
        IN  /\ Elems(search_results'.words) =
                 {w \in WordIds : /\ words[w].exists
                                  /\ words[w].user_id = u
                                  /\ StartsWith(WordKeys[w], q)}
            /\ Len(search_results'.words) =
                 Cardinality(Elems(search_results'.words))
            /\ Ascending(search_results'.words, WordKeys)
            /\ Elems(search_results'.categories) =
                 {c \in CatIds : /\ categories[c].exists
                                 /\ categories[c].user_id = u
                                 /\ StartsWith(CategoryKeys[c], q)}
            /\ Len(search_results'.categories) =
                 Cardinality(Elems(search_results'.categories))
            /\ Ascending(search_results'.categories, CategoryKeys)]_vars

\* What search does return: the caller's entities whose key starts with the
\* query and is not above the query followed by U+F8FF, in ascending order.
SearchExactUpToRangeEnd ==
  [][(result'.op = "search" /\ result'.arg # <<>>
      /\ <<result', search_results'>> # <<result, search_results>>)
     => LET u == result'.caller
            q == Lower(result'.arg)
        IN  /\ Elems(search_results'.words) =
                 {w \in WordIds : /\ words[w].exists
                                  /\ words[w].user_id = u
                                  /\ StartsWith(WordKeys[w], q)
                                  /\ StrLessEq(WordKeys[w], range_end(q))}
            /\ Len(search_results'.words) =
                 Cardinality(Elems(search_results'.words))
            /\ Ascending(search_results'.words, WordKeys)
            /\ Elems(search_results'.categories) =
                 {c \in CatIds : /\ categories[c].exists
                                 /\ categories[c].user_id = u
                                 /\ StartsWith(CategoryKeys[c], q)
                                 /\ StrLessEq(CategoryKeys[c], range_end(q))}
            /\ Len(search_results'.categories) =
                 Cardinality(Elems(search_results'.categories))
            /\ Ascending(search_results'.categories, CategoryKeys)]_vars

\* A search that returns two words of the caller in ascending key order.
SearchTwoWordsReturned ==
  /\ result.op = "search"
  /\ Len(search_results.words) = 2

====
